---- MODULE Spec2Model ----
(***************************************************************************)
(* seerr-bot: the agent tool-orchestration loop (processMediaRequest and   *)
(* handleToolCall), the session store (SessionManager) and the chat        *)
(* handler that connects them (the messageCreate listener).                *)
(*                                                                         *)
(* The specifications share the variables:                               *)
(*   SessionSpec    - arbitrary get/set/clear/cleanup calls and clock      *)
(*                    advances on the session store;                       *)
(*   Spec           - chat messages handled one at a time: fetch, agent    *)
(*                    run against a nondeterministic completion endpoint   *)
(*                    and nondeterministic catalog outcomes, store;        *)
(*   AlwaysToolSpec - one agent run against a completion endpoint that     *)
(*                    answers every call with a tool-invocation request;   *)
(*   ConcurrentSpec - two listener invocations in flight at once, for the  *)
(*                    same author or for two different authors;            *)
(*   ToolSpec       - one agent run that dispatches tool invocations with  *)
(*                    well- and ill-formed arguments against every catalog *)
(*                    outcome;                                             *)
(*   ChunkSpec      - splitTextIntoChunks, pass by pass, on long texts;    *)
(*   SectionSpec    - parseResponseSections on texts with directives;      *)
(*   RenderSpec     - the rendering of a final text into embeds or chunks; *)
(*   QuerySpec      - parseYearFromQuery on queries with year suffixes;    *)
(*   SearchSpec     - handleSearchMedia on catalog answers;                *)
(*   ListSpec       - handleListRequests with lookups settling in any      *)
(*                    order;                                               *)
(*   ScenarioSpec   - one message answered by search, details, request;    *)
(*   ListenerSpec   - messages with and without a reset command, handled   *)
(*                    one at a time;                                       *)
(*   ResetRaceSpec  - a reset command handled while a run of the same      *)
(*                    author is in flight.                                 *)
(***************************************************************************)
EXTENDS Integers, Sequences, FiniteSets, TLC

VARIABLES
  sessions,     \* SessionManager.sessions: userId -> Session | Undefined
  now,          \* Date.now(), in milliseconds
  ticks,        \* number of clock advances so far (bounds the clock)
  lastOp,       \* SessionSpec: the store call made by the last step
  ret,          \* SessionSpec: what the last get returned
  lastSet,      \* history: per user, the arguments and time of the most
                \* recent set not followed by a clear (Undefined if none)
  pc,           \* per handler: where the messageCreate listener is suspended
  hand,         \* per handler: the listener's locals (author, content, timer)
  run,          \* per handler: the locals of its processMediaRequest call
  probe         \* the text function being applied on its own, its argument
                \* and its locals (the specifications of the text functions)

svars == <<sessions, now, ticks, lastOp, ret, lastSet, probe>>
hvars == <<pc, hand, run>>
vars == <<sessions, now, ticks, lastOp, ret, lastSet, pc, hand, run, probe>>

-----------------------------------------------------------------------------
(* Bounds *)

MaxTicks == 3

\* clock advances in one behaviour of Spec
MaxElapses == 2

\* turns a conversation may reach in Spec: a message is delivered only
\* while its author's stored conversation leaves room for the user turn and
\* an answer, and the completion endpoint asks for tools only while there is
\* room for the two turns of the round trip and an answer
MaxTurns == 5

\* completion calls explored in one run of AlwaysToolSpec
MaxCalls == 12

\* the longest text handed to splitTextIntoChunks in ChunkSpec
MaxTextLength == 4500

\* the most pieces (runs of prose, directives) a text of SectionSpec has
MaxPieces == 4

\* the most pieces a final text of RenderSpec has
MaxRenderPieces == 3

\* the most requests the catalog lists in ListSpec
MaxRequests == 3

\* the length up to which SearchSpec takes every list of catalog results
MaxResults == 3

\* the most tokens (a word, a blank, a bracket, a number) a query of
\* QuerySpec has
MaxQueryTokens == 4

\* turns a conversation may reach, and clock advances, in ConcurrentSpec
MaxRaceTurns == 4
MaxRaceElapses == 1

-----------------------------------------------------------------------------
(* Program constants *)

\* sessions.ts:8   const SESSION_TTL_MS = 30 * 60 * 1000
SESSION_TTL_MS == 30 * 60 * 1000

\* sessions.ts:51  setInterval(() => sessionManager.cleanup(), 5 * 60 * 1000)
CLEANUP_INTERVAL_MS == 5 * 60 * 1000

\* the platform's message limit and the earliest acceptable break
DISCORD_MAX_LENGTH == 2000
MIN_CHUNK_LENGTH == 1000

-----------------------------------------------------------------------------
(* Values *)

Users == {"alice", "bob"}

\* JavaScript undefined: a missing Map entry, the result of a failed get
Undefined == [undefined |-> TRUE]

\* a value that is not undefined (an optional result or argument)
Defined(v) == [value |-> v]

\* the amounts by which the clock advances in one step: one millisecond,
\* one cleanup period, one whole TTL
TickDeltas == {1, CLEANUP_INTERVAL_MS, SESSION_TTL_MS}

-----------------------------------------------------------------------------
(* SessionManager (sessions.ts) *)

\* variant: the age test with >= in place of >
Expired_inclusive(session, t) == t - session.lastActivity >= SESSION_TTL_MS

\* the age test shared by get and cleanup: now - session.lastActivity > TTL
Expired(session, t) == t - session.lastActivity > SESSION_TTL_MS

\* variant: a get that bumps lastActivity of the entry it returns
get_touch(S, userId, t) ==
  LET session == S[userId] IN
  IF session = Undefined
    THEN [ret |-> Undefined, sessions |-> S]
    ELSE IF Expired(session, t)
      THEN [ret |-> Undefined, sessions |-> [S EXCEPT ![userId] = Undefined]]
      ELSE [ret |-> Defined(session.messages),
            sessions |-> [S EXCEPT ![userId].lastActivity = t]]

\* get(userId): the returned value and the store afterwards
get(S, userId, t) ==
  LET session == S[userId] IN
  IF session = Undefined
    THEN [ret |-> Undefined, sessions |-> S]
    ELSE IF Expired(session, t)
      THEN [ret |-> Undefined, sessions |-> [S EXCEPT ![userId] = Undefined]]
      ELSE [ret |-> Defined(session.messages), sessions |-> S]

\* set(userId, messages)
set(S, userId, messages, t) ==
  [S EXCEPT ![userId] = [messages |-> messages, lastActivity |-> t]]

\* variant: a clear that empties the whole Map
clear_all(S, userId) == [u \in Users |-> Undefined]

\* clear(userId)
clear(S, userId) == [S EXCEPT ![userId] = Undefined]

\* variant: a loop that stops at the first entry it deletes
RECURSIVE cleanupLoop_stopAtDelete(_, _, _)
cleanupLoop_stopAtDelete(keys, S, t) ==
  IF keys = {} THEN S
  ELSE LET userId == CHOOSE k \in keys : TRUE
       IN IF Expired(S[userId], t)
            THEN [S EXCEPT ![userId] = Undefined]
            ELSE cleanupLoop_stopAtDelete(keys \ {userId}, S, t)

\* cleanup(): the for-of loop over the Map's entries, deleting as it goes
RECURSIVE cleanupLoop(_, _, _)
cleanupLoop(keys, S, t) ==
  IF keys = {} THEN S
  ELSE LET userId == CHOOSE k \in keys : TRUE
           S1 == IF Expired(S[userId], t)
                   THEN [S EXCEPT ![userId] = Undefined]
                   ELSE S
       IN cleanupLoop(keys \ {userId}, S1, t)

cleanup(S, t) == cleanupLoop({u \in Users : S[u] # Undefined}, S, t)

-----------------------------------------------------------------------------
(* Conversation turns and content blocks (Anthropic.MessageParam) *)

Text(t) == [type |-> "text", text |-> t]

ToolUse(id, name, input) ==
  [type |-> "tool_use", id |-> id, name |-> name, input |-> input]

ToolResult(id, content) ==
  [type |-> "tool_result", tool_use_id |-> id, content |-> content]

\* { role: "user", content: userMessage }: the string content is written as
\* the single text block it stands for, so that every turn holds a block list
UserTurn(userMessage) == [role |-> "user", content |-> <<Text(userMessage)>>]

\* { role: "assistant", content: response.content }
AssistantTurn(content) == [role |-> "assistant", content |-> content]

\* { role: "user", content: toolResults }
ToolResultTurn(toolResults) == [role |-> "user", content |-> toolResults]

-----------------------------------------------------------------------------
(* Text helpers *)

\* Array.prototype.join over strings
RECURSIVE Join(_, _)
Join(strs, sep) ==
  IF Len(strs) = 0 THEN ""
  ELSE IF Len(strs) = 1 THEN strs[1]
  ELSE strs[1] \o sep \o Join(Tail(strs), sep)

\* String(n) for the small numbers the model uses
NumStr(n) ==
  CASE n = 0 -> "0" [] n = 1 -> "1" [] n = 2 -> "2" [] n = 3 -> "3"
    [] n = 7 -> "7" [] n = 42 -> "42" [] n = 27205 -> "27205"
    [] n = 403 -> "403" [] n = 404 -> "404" [] n = 409 -> "409"
    [] n = 500 -> "500"

\* Array.prototype.sort((a, b) => a - b): insertion into an ascending list
RECURSIVE SortAsc(_)
SortAsc(xs) ==
  IF Len(xs) <= 1 THEN xs
  ELSE LET rest == SortAsc(Tail(xs))
           x == Head(xs)
           lo == SelectSeq(rest, LAMBDA y : y < x)
           hi == SelectSeq(rest, LAMBDA y : y >= x)
       IN lo \o <<x>> \o hi

\* String.prototype.includes on an error message; a message is kept as its
\* list of parts (prefix, status code, body) and the search is by part
Includes(messageParts, needle) ==
  \E i \in 1..Len(messageParts) : messageParts[i] = needle

-----------------------------------------------------------------------------
(* The catalog and cross-reference clients, as seen by the tools *)

\* how one outbound call ends: a 2xx answer, a non-2xx answer, no answer
OkOutcome == [kind |-> "ok"]
NetworkOutcome == [kind |-> "network"]

\* a non-2xx answer with the given body text, kept as its list of parts
StatusBodyOutcome(status, body) ==
  [kind |-> "status", status |-> status, body |-> body]

StatusOutcome(status) ==
  StatusBodyOutcome(status, <<"{\"message\":\"rejected\"}">>)

\* the outcomes explored for each tool invocation
ClientOutcomes == {OkOutcome, StatusOutcome(500), NetworkOutcome}

\* SeerrService.request: throws Error(`Seerr API error (${status}): ${body}`)
\* on a non-2xx answer; fetch itself rejects when there is no answer
SeerrRequest(outcome) ==
  CASE outcome.kind = "ok" -> [ok |-> TRUE]
    [] outcome.kind = "status" ->
         [ok |-> FALSE,
          message |-> <<"Seerr API error (", NumStr(outcome.status), "): ">>
                        \o outcome.body]
    [] outcome.kind = "network" ->
         [ok |-> FALSE, message |-> <<"fetch failed">>]

\* OmdbService: no status check, the body is parsed whatever the status;
\* fetch itself rejects when there is no answer
OmdbRequest(outcome) ==
  CASE outcome.kind = "ok" -> [ok |-> TRUE, Response |-> "True"]
    [] outcome.kind = "status" -> [ok |-> TRUE, Response |-> "False"]
    [] outcome.kind = "network" ->
         [ok |-> FALSE, message |-> <<"fetch failed">>]

\* utils.ts formatErrorMessage: error.message of an Error
formatErrorMessage(error) == Join(error.message, "")

-----------------------------------------------------------------------------
(* Tool handlers (agent/index.ts).  Each yields either a returned text or   *)
(* a thrown Error, together with its input object as the call left it.     *)

\* requests counts the outbound calls the handler made
Returned(text, input) ==
  [kind |-> "text", text |-> text, input |-> input, requests |-> 0]

Threw(message, input) ==
  [kind |-> "throw", message |-> message, input |-> input, requests |-> 0]

\* variant: an outbound call that is sent a second time
Sent_twice(r) == [r EXCEPT !.requests = @ + 2]

\* the handler got here through one outbound call
Sent(r) == [r EXCEPT !.requests = @ + 1]

Has(input, field) == field \in DOMAIN input

\* typeof input[field].  An argument whose JavaScript type is not the one
\* the tool's schema declares is kept as its conversion to the declared
\* type, with its own type noted under input.typeof
TypeOf(input, field, declared) ==
  IF ~Has(input, field) THEN "undefined"
  ELSE IF ~Has(input, "typeof") THEN declared
  ELSE IF Has(input.typeof, field) THEN input.typeof[field]
  ELSE declared

\* `${input[field]}` for a numeric argument
Shown(input, field) ==
  IF Has(input, field) THEN NumStr(input[field]) ELSE "undefined"

RegisteredTools ==
  {"search_media", "get_media_details", "verify_imdb", "request_media",
   "list_requests", "approve_request", "decline_request",
   "discover_trending", "discover_upcoming", "discover_movies",
   "discover_tv", "get_similar", "get_ratings"}

\* one property of an input_schema: its type and, when it has one, its enum
Property(type, enum) == [type |-> type, enum |-> enum]

MovieOrTv == Property("string", {"movie", "tv"})

\* input_schema of each entry of the tools array
ToolSchema(name) ==
  CASE name = "search_media" ->
         [required |-> {"query"},
          properties |-> [query |-> Property("string", {})]]
    [] name \in {"get_media_details", "get_similar", "get_ratings"} ->
         [required |-> {"tmdbId", "mediaType"},
          properties |-> [tmdbId |-> Property("number", {}),
                          mediaType |-> MovieOrTv]]
    [] name = "verify_imdb" ->
         [required |-> {},
          properties |-> [imdbId |-> Property("string", {}),
                          title |-> Property("string", {}),
                          year |-> Property("string", {}),
                          type |-> Property("string", {"movie", "series"})]]
    [] name = "request_media" ->
         [required |-> {"tmdbId", "mediaType"},
          properties |-> [tmdbId |-> Property("number", {}),
                          mediaType |-> MovieOrTv,
                          seasons |-> Property("array", {})]]
    [] name = "list_requests" ->
         [required |-> {},
          properties |->
            [filter |-> Property("string", {"pending", "approved",
                                            "processing", "available",
                                            "failed"})]]
    [] name \in {"approve_request", "decline_request"} ->
         [required |-> {"requestId"},
          properties |-> [requestId |-> Property("number", {})]]
    [] name = "discover_trending" ->
         [required |-> {},
          properties |->
            [mediaType |-> Property("string", {"movie", "tv", "all"})]]
    [] name = "discover_upcoming" ->
         [required |-> {"mediaType"},
          properties |-> [mediaType |-> MovieOrTv]]
    [] name = "discover_movies" ->
         [required |-> {},
          properties |->
            [year |-> Property("number", {}),
             genre |-> Property("string", {}),
             minRating |-> Property("number", {}),
             sortBy |-> Property("string", {"popularity", "rating",
                                            "release_date"})]]
    [] name = "discover_tv" ->
         [required |-> {},
          properties |->
            [year |-> Property("number", {}),
             genre |-> Property("string", {}),
             minRating |-> Property("number", {}),
             sortBy |-> Property("string", {"popularity", "rating",
                                            "first_air_date"})]]

\* whether input is an instance of the tool's input_schema
Validates(name, input) ==
  LET schema == ToolSchema(name) IN
  /\ schema.required \subseteq DOMAIN input
  /\ \A field \in DOMAIN input \cap DOMAIN schema.properties :
       LET property == schema.properties[field] IN
       IF TypeOf(input, field, property.type) # property.type THEN FALSE
       ELSE IF property.enum = {} THEN TRUE
       ELSE input[field] \in property.enum

\* a handler that awaits one catalog call and formats its answer, with no
\* try/catch of its own
CatalogTool(text, input, outcome) ==
  LET r == SeerrRequest(outcome) IN
  Sent(IF r.ok THEN Returned(text, input) ELSE Threw(r.message, input))

handleSearchMedia(input, outcome) ==
  IF ~Has(input, "query")
    THEN \* parseYearFromQuery(undefined): query.match throws a TypeError
         Threw(<<"Cannot read properties of undefined (reading 'match')">>,
               input)
    ELSE IF TypeOf(input, "query", "string") # "string"
      THEN Threw(<<"query.match is not a function">>, input)
    ELSE CatalogTool("Found 1 results. Top matches:\n\n1. " \o input.query
                       \o " (2010) - Movie - TMDB:27205", input, outcome)

\* variant: only an absent seasons list counts as missing
MissingSeasons_absentOnly(input) == ~Has(input, "seasons")

\* !seasons || seasons.length === 0
MissingSeasons(input) ==
  IF Has(input, "seasons") THEN Len(input.seasons) = 0 ELSE TRUE

handleRequestMedia(input, outcome) ==
  IF Has(input, "mediaType") /\ input.mediaType = "movie"
    THEN CatalogTool("Movie request submitted successfully!\nRequest ID: 42"
                       \o "\nStatus: Pending", input, outcome)
    ELSE IF MissingSeasons(input)
      THEN Returned("Error: For TV shows, you must specify which seasons to "
                    \o "request. Use get_media_details first to see "
                    \o "available seasons.", input)
      ELSE LET r == SeerrRequest(outcome)
               \* seasons.sort(...) sorts the caller's array in place
               sorted == SortAsc(input.seasons)
               seasonsList ==
                 Join([i \in 1..Len(sorted) |-> NumStr(sorted[i])], ", ")
           IN IF r.ok
                THEN Sent(Returned("TV show request submitted successfully!"
                                   \o "\nRequest ID: 42\nSeasons requested: "
                                   \o seasonsList \o "\nStatus: Pending",
                                   [input EXCEPT !.seasons = sorted]))
                ELSE Sent(Threw(r.message, input))

handleVerifyImdb(input, outcome) ==
  IF Has(input, "imdbId") \/ Has(input, "title")
    THEN LET r == OmdbRequest(outcome)
             what == IF Has(input, "imdbId") THEN "lookup" ELSE "search"
         IN IF ~r.ok THEN Sent(Threw(r.message, input))
            ELSE IF r.Response = "False"
              THEN Sent(Returned("IMDB " \o what \o " failed: Not found",
                                 input))
              ELSE Sent(Returned("IMDB " \o what \o " result", input))
    ELSE Returned("Please provide either an IMDB ID or a title to search.",
                  input)

\* requestId is the argument as the template literal renders it
formatRequestError(error, requestId, action) ==
  LET message == error.message IN
  IF Includes(message, "403")
    THEN "Permission denied. The API key doesn't have MANAGE_REQUESTS "
         \o "permission."
    ELSE IF Includes(message, "404")
      THEN "Request #" \o requestId
           \o " not found. Use list_requests to see available requests."
      ELSE "Error " \o action \o " request: " \o formatErrorMessage(error)

handleApproveRequest(input, outcome) ==
  LET r == SeerrRequest(outcome) IN
  Sent(IF r.ok
         THEN Returned("Approved request #" \o Shown(input, "requestId")
                       \o "!", input)
         ELSE Returned(formatRequestError(r, Shown(input, "requestId"),
                                          "approving"), input))

handleDeclineRequest(input, outcome) ==
  LET r == SeerrRequest(outcome) IN
  Sent(IF r.ok
         THEN Returned("Declined request #" \o Shown(input, "requestId")
                       \o ".", input)
         ELSE Returned(formatRequestError(r, Shown(input, "requestId"),
                                          "declining"), input))

handleGetRatings(input, outcome) ==
  LET r == SeerrRequest(outcome) IN
  Sent(IF r.ok THEN Returned("Rotten Tomatoes: 87%", input)
       ELSE IF Includes(r.message, "404")
         THEN Returned("No ratings found for this movie.", input)
         ELSE Returned("Error fetching ratings: " \o formatErrorMessage(r),
                       input))

\* variant: a default case that throws
UnknownTool_throw(name, input) == Threw(<<"Unknown tool: ", name>>, input)

\* the default case of the switch
UnknownTool(name, input) == Returned("Unknown tool: " \o name, input)

\* the switch of handleToolCall
Dispatch(name, input, outcome) ==
  CASE name = "search_media" -> handleSearchMedia(input, outcome)
    [] name = "get_media_details" ->
         CatalogTool("Movie: Inception (2010)", input, outcome)
    [] name = "verify_imdb" -> handleVerifyImdb(input, outcome)
    [] name = "request_media" -> handleRequestMedia(input, outcome)
    [] name = "list_requests" ->
         CatalogTool("No pending requests found.", input, outcome)
    [] name = "approve_request" -> handleApproveRequest(input, outcome)
    [] name = "decline_request" -> handleDeclineRequest(input, outcome)
    [] name = "discover_trending" ->
         CatalogTool("No trending content found.", input, outcome)
    [] name = "discover_upcoming" ->
         CatalogTool("No upcoming movies found.", input, outcome)
    [] name = "discover_movies" ->
         CatalogTool("No movies found.", input, outcome)
    [] name = "discover_tv" ->
         CatalogTool("No TV shows found.", input, outcome)
    [] name = "get_similar" ->
         CatalogTool("No similar titles found.", input, outcome)
    [] name = "get_ratings" -> handleGetRatings(input, outcome)
    [] OTHER -> UnknownTool(name, input)

\* variant: the switch without the surrounding try/catch
handleToolCall_rethrow(name, input, outcome) == Dispatch(name, input, outcome)

\* handleToolCall: the switch inside try/catch; a thrown Error becomes text
handleToolCall(name, input, outcome) ==
  LET r == Dispatch(name, input, outcome) IN
  IF r.kind = "throw"
    THEN [Returned("Error: " \o formatErrorMessage(r), r.input)
            EXCEPT !.requests = r.requests]
    ELSE r

\* whether the invocation reaches a client at all (an unknown tool, a usage
\* error or a bad input ends before any outbound call)
CallsClient(name, input) ==
  Dispatch(name, input, OkOutcome) # Dispatch(name, input, NetworkOutcome)

-----------------------------------------------------------------------------
(* processMediaRequest (agent/index.ts): its locals and straight-line parts *)

Apology ==
  "Sorry, I encountered an error processing your request. Please try again."

\* the text blocks of a response joined by newlines, or "No response"
ResultText(content) ==
  LET textBlocks == SelectSeq(content, LAMBDA b : b.type = "text")
      joined == Join([i \in 1..Len(textBlocks) |-> textBlocks[i].text], "\n")
  IN IF joined = "" THEN "No response" ELSE joined

\* the positions in response.content of its tool_use blocks, in order
RECURSIVE ToolUsePositions(_, _)
ToolUsePositions(content, from) ==
  IF from > Len(content) THEN <<>>
  ELSE IF content[from].type = "tool_use"
    THEN <<from>> \o ToolUsePositions(content, from + 1)
    ELSE ToolUsePositions(content, from + 1)

\* toolUseBlocks = response.content.filter(block => block.type === "tool_use")
ToolUseBlocks(content) ==
  LET pos == ToolUsePositions(content, 1) IN
  [i \in 1..Len(pos) |-> content[pos[i]]]

\* variant: results collected with unshift instead of push
PushResult_front(toolResults, result) == <<result>> \o toolResults

\* toolResults.push(result)
PushResult(toolResults, result) == Append(toolResults, result)

\* variant: a history window that drops the oldest turn when appending
PushTurns_window(messages, turns) == Tail(messages) \o turns

\* messages.push(turn), for one or two turns
PushTurns(messages, turns) == messages \o turns

\* the locals of a call that has not started
NoRun ==
  [existing |-> Undefined, userMessage |-> "", messages |-> <<>>,
   response |-> Undefined, idx |-> 0, toolResults |-> <<>>,
   dispatched |-> <<>>, outcomes |-> <<>>, result |-> "", state |-> "none",
   calls |-> 0, rounds |-> 0, createFailed |-> FALSE, seen |-> Undefined,
   requests |-> <<>>, log |-> <<>>, overtaken |-> FALSE]

\* variant: a call that starts from the new user turn alone
StartRun_fresh(userMessage, existing) ==
  [NoRun EXCEPT !.existing = existing, !.userMessage = userMessage,
                !.messages = <<UserTurn(userMessage)>>,
                !.state = "running", !.calls = 1]

\* lines 787-798: build messages from existingMessages and the user turn,
\* then issue the first completion call
StartRun(userMessage, existing) ==
  [NoRun EXCEPT !.existing = existing, !.userMessage = userMessage,
                !.messages = IF existing # Undefined
                               THEN existing.value \o <<UserTurn(userMessage)>>
                               ELSE <<UserTurn(userMessage)>>,
                !.state = "running", !.calls = 1]

\* variant: a catch block that rethrows instead of returning
Abort_rethrow(r) == [r EXCEPT !.state = "threw"]

\* lines 847-853: the catch block
Abort(r) == [r EXCEPT !.result = Apology, !.state = "aborted"]

\* variant: a catch block that issues the completion call once more
OnCreateFailure_retry(r) == [r EXCEPT !.calls = @ + 1, !.createFailed = TRUE]

\* anthropic.messages.create rejected: control goes to the catch block
OnCreateFailure(r) == Abort([r EXCEPT !.createFailed = TRUE])

\* lines 835-846: no tool loop (any more); record the turn and return
Finish(r, response) ==
  [r EXCEPT !.response = response,
            !.messages = PushTurns(@, <<AssistantTurn(response.content)>>),
            !.result = ResultText(response.content),
            !.state = "final"]

\* lines 823-832: record the assistant turn and the tool results, then
\* issue the next completion call
NextRound(r, content, toolResults) ==
  [r EXCEPT !.messages = PushTurns(@, <<AssistantTurn(content),
                                        ToolResultTurn(toolResults)>>),
            !.toolResults = toolResults,
            !.response = [@ EXCEPT !.content = content],
            !.idx = 0,
            !.calls = @ + 1, !.rounds = @ + 1]

\* anthropic.messages.create resolved with response
OnResponse(r, response) ==
  IF response.stop_reason = "tool_use"
    THEN LET blocks == ToolUseBlocks(response.content) IN
         IF Len(blocks) = 0
           THEN NextRound([r EXCEPT !.response = response,
                                    !.dispatched = <<>>, !.outcomes = <<>>,
                                    !.requests = <<>>],
                          response.content, <<>>)
           ELSE \* first pass of the for loop: handleToolCall is awaited
                [r EXCEPT !.response = response, !.toolResults = <<>>,
                          !.idx = 1, !.dispatched = <<blocks[1].id>>,
                          !.outcomes = <<>>, !.requests = <<>>]
    ELSE Finish(r, response)

\* handleToolCall for toolUseBlocks[idx] settled with outcome: push its
\* result, then either enter the next pass of the for loop or leave it
OnToolSettled(r, outcome) ==
  LET content == r.response.content
      pos == ToolUsePositions(content, 1)
      toolUse == content[pos[r.idx]]
      settled == handleToolCall(toolUse.name, toolUse.input, outcome)
      \* the handler worked on toolUse.input itself
      content1 == [content EXCEPT ![pos[r.idx]].input = settled.input]
      r1 == [r EXCEPT !.response = [@ EXCEPT !.content = content1],
                      !.outcomes = Append(@, outcome),
                      !.requests = Append(@, settled.requests),
                      \* history: every invocation of the run, as dispatched
                      !.log = Append(@, [name |-> toolUse.name,
                                         input |-> toolUse.input,
                                         outcome |-> outcome,
                                         requests |-> settled.requests])]
  IN IF settled.kind = "throw"
       THEN Abort(r1)
       ELSE LET toolResults ==
                  PushResult(r.toolResults,
                             ToolResult(toolUse.id, settled.text))
            IN IF r.idx < Len(pos)
                 THEN [r1 EXCEPT !.toolResults = toolResults,
                                 !.idx = @ + 1,
                                 !.dispatched =
                                   Append(@, content1[pos[r.idx + 1]].id)]
                 ELSE NextRound(r1, content1, toolResults)

-----------------------------------------------------------------------------
(* The completion endpoint: the responses it may give *)

FinalAnswer ==
  [stop_reason |-> "end_turn",
   content |-> <<Text("Inception (2010) has been requested.")>>]

\* an answer without any text block
EmptyAnswer == [stop_reason |-> "end_turn", content |-> <<>>]

\* an answer cut off by the output limit after a tool_use block
CutOffAnswer ==
  [stop_reason |-> "max_tokens",
   content |-> <<Text("Let me look that up."),
                 ToolUse("toolu_3", "search_media", [query |-> "Inception"])>>]

SearchCall ==
  [stop_reason |-> "tool_use",
   content |-> <<ToolUse("toolu_1", "search_media", [query |-> "Inception"])>>]

\* two invocations in one response: a series request whose seasons are not
\* in ascending order, and a tool that is not registered
TwoCalls ==
  [stop_reason |-> "tool_use",
   content |-> <<Text("Requesting both seasons."),
                 ToolUse("toolu_1", "request_media",
                         [tmdbId |-> 42, mediaType |-> "tv",
                          seasons |-> <<2, 1>>]),
                 ToolUse("toolu_2", "make_coffee", [cups |-> 2])>>]

ToolResponses == {SearchCall, TwoCalls}
FinalResponses == {FinalAnswer, EmptyAnswer, CutOffAnswer}
Responses == ToolResponses \cup FinalResponses

-----------------------------------------------------------------------------
(* The messageCreate listener (index.ts) *)

\* the invocations of the listener that may be in flight at once
Handlers == {1, 2}

\* message.content with the mention removed and trimmed
Contents == {"request Inception", "Start Over", ""}

\* the characters of each content, for the substring test
Chars(content) ==
  CASE content = "request Inception" ->
         <<"r","e","q","u","e","s","t"," ","I","n","c","e","p","t","i","o","n">>
    [] content = "Start Over" ->
         <<"S","t","a","r","t"," ","O","v","e","r">>
    [] content = "request Severance" ->
         <<"r","e","q","u","e","s","t"," ","S","e","v","e","r","a","n","c","e">>
    [] content = "please FORGET that" ->
         <<"p","l","e","a","s","e"," ","F","O","R","G","E","T"," ",
           "t","h","a","t">>
    [] content = "New Conversation" ->
         <<"N","e","w"," ","C","o","n","v","e","r","s","a","t","i","o","n">>
    [] content = "preset list" ->
         <<"p","r","e","s","e","t"," ","l","i","s","t">>
    [] content = "for get" -> <<"f","o","r"," ","g","e","t">>
    [] content = "" -> <<>>

\* String.prototype.toLowerCase on the letters that occur
LowerChar(c) ==
  CASE c = "I" -> "i" [] c = "S" -> "s" [] c = "O" -> "o"
    [] c = "F" -> "f" [] c = "R" -> "r" [] c = "G" -> "g"
    [] c = "E" -> "e" [] c = "T" -> "t" [] c = "N" -> "n"
    [] c = "C" -> "c" [] OTHER -> c

ToLowerCase(chars) == [i \in 1..Len(chars) |-> LowerChar(chars[i])]

\* String.prototype.includes on character lists
IncludesChars(chars, sub) ==
  \E i \in 0..(Len(chars) - Len(sub)) :
    \A j \in 1..Len(sub) : chars[i + j] = sub[j]

resetCommands ==
  << <<"n","e","w"," ","c","o","n","v","e","r","s","a","t","i","o","n">>,
     <<"s","t","a","r","t"," ","o","v","e","r">>,
     <<"r","e","s","e","t">>,
     <<"f","o","r","g","e","t">> >>

\* resetCommands.some(cmd => content.toLowerCase().includes(cmd))
IsResetCommand(content) ==
  \E k \in 1..Len(resetCommands) :
    IncludesChars(ToLowerCase(Chars(content)), resetCommands[k])

\* where the listener is suspended while its processMediaRequest call has
\* locals r: on the completion call, on a handleToolCall, or on the return
Position(r) ==
  IF r.state # "running" THEN "returned"
  ELSE IF r.idx > 0 THEN "tool" ELSE "create"

\* a listener that is not running
IdleHand == [user |-> "alice", content |-> "", typing |-> FALSE,
             reply |-> "none"]

\* a listener that has sent its reply and returned; its typing timer, if
\* it was not stopped, keeps firing
Finished(hd, reply) ==
  [IdleHand EXCEPT !.user = hd.user, !.reply = reply, !.typing = hd.typing]

\* no text function is being applied
NoProbe == [fn |-> "none"]

HandlersIdle ==
  /\ pc = [h \in Handlers |-> "idle"]
  /\ hand = [h \in Handlers |-> IdleHand]
  /\ run = [h \in Handlers |-> NoRun]

\* whether the stored conversation of u leaves room for a run on content
RoomFor(u, content) ==
  IF content = "" \/ IsResetCommand(content) \/ sessions[u] = Undefined
    THEN TRUE
    ELSE Len(sessions[u].messages) + 2 <= MaxTurns

\* lines 74-114: a message arrives; an empty content is answered with the
\* help text, any other content waits for channel.sendTyping()
Receive(h, u, content) ==
  /\ pc[h] = "idle"
  /\ RoomFor(u, content)
  /\ run' = run
  /\ IF content = ""
       THEN /\ hand' = [hand EXCEPT ![h] =
                          Finished([IdleHand EXCEPT !.user = u], "help")]
            /\ pc' = pc
       ELSE /\ hand' = [hand EXCEPT ![h] =
                          [IdleHand EXCEPT !.user = u, !.content = content]]
            /\ pc' = [pc EXCEPT ![h] = "sendTyping"]
  /\ UNCHANGED svars

\* lines 113, 210-215: sendTyping rejected; the catch block replies
TypingFails(h) ==
  /\ pc[h] = "sendTyping"
  /\ hand' = [hand EXCEPT ![h] = Finished(@, "error")]
  /\ pc' = [pc EXCEPT ![h] = "idle"]
  /\ UNCHANGED run
  /\ UNCHANGED svars

\* variant: a reset that leaves the stored conversation in place
Reset_keepSession(h) ==
  /\ pc[h] = "sendTyping"
  /\ IsResetCommand(hand[h].content)
  /\ hand' = [hand EXCEPT ![h] = Finished(@, "reset")]
  /\ pc' = [pc EXCEPT ![h] = "idle"]
  /\ UNCHANGED <<run, sessions, lastSet, now, ticks, lastOp, ret, probe>>

\* history: the runs of the user u that other invocations of the listener
\* have begun and not yet stored are marked as overtaken by a reset
Overtake(h, u) ==
  [g \in Handlers |->
     IF g # h /\ hand[g].user = u /\ pc[g] \in {"create", "tool", "returned"}
       THEN [run[g] EXCEPT !.overtaken = TRUE]
       ELSE run[g]]

\* lines 117-134: the typing timer is started; a reset command clears the
\* session, stops the timer and replies
Reset(h) ==
  /\ pc[h] = "sendTyping"
  /\ IsResetCommand(hand[h].content)
  /\ sessions' = clear(sessions, hand[h].user)
  /\ lastSet' = [lastSet EXCEPT ![hand[h].user] = Undefined]
  \* setInterval (line 117) and clearInterval (line 129)
  /\ hand' = [hand EXCEPT ![h] = Finished([@ EXCEPT !.typing = FALSE],
                                          "reset")]
  /\ pc' = [pc EXCEPT ![h] = "idle"]
  /\ run' = Overtake(h, hand[h].user)
  /\ UNCHANGED <<now, ticks, lastOp, ret, probe>>

\* lines 117-143 and agent/index.ts 787-798: the typing timer is started,
\* the session is fetched and processMediaRequest runs up to its first
\* completion call
Begin(h) ==
  /\ pc[h] = "sendTyping"
  /\ ~IsResetCommand(hand[h].content)
  /\ LET fetched == get(sessions, hand[h].user, now) IN
       /\ sessions' = fetched.sessions
       /\ run' = [run EXCEPT ![h] =
                    [StartRun(hand[h].content, fetched.ret)
                       EXCEPT !.seen = lastSet[hand[h].user]]]
  /\ hand' = [hand EXCEPT ![h].typing = TRUE]
  /\ pc' = [pc EXCEPT ![h] = "create"]
  /\ UNCHANGED <<now, ticks, lastOp, ret, lastSet, probe>>

\* the pending completion call rejects
CreateFails(h) ==
  /\ pc[h] = "create"
  /\ run' = [run EXCEPT ![h] = OnCreateFailure(@)]
  /\ pc' = [pc EXCEPT ![h] = Position(run'[h])]
  /\ UNCHANGED hand
  /\ UNCHANGED svars

\* the pending completion call resolves
Responds(h, response, roomForTools) ==
  /\ pc[h] = "create"
  /\ response.stop_reason = "tool_use" => roomForTools
  /\ run' = [run EXCEPT ![h] = OnResponse(@, response)]
  /\ pc' = [pc EXCEPT ![h] = Position(run'[h])]
  /\ UNCHANGED hand
  /\ UNCHANGED svars

\* the pending handleToolCall settles
ToolSettles(h, outcome) ==
  /\ pc[h] = "tool"
  /\ LET toolUse == ToolUseBlocks(run[h].response.content)[run[h].idx] IN
       outcome = OkOutcome \/ CallsClient(toolUse.name, toolUse.input)
  /\ run' = [run EXCEPT ![h] = OnToolSettled(@, outcome)]
  /\ pc' = [pc EXCEPT ![h] = Position(run'[h])]
  /\ UNCHANGED hand
  /\ UNCHANGED svars

\* variant: a store that appends the run's new turns to the entry it finds
StoreSession_merge(S, userId, r, t) ==
  IF S[userId] = Undefined \/ r.existing = Undefined
    THEN set(S, userId, r.messages, t)
    ELSE set(S, userId,
             S[userId].messages
               \o SubSeq(r.messages, Len(r.existing.value) + 1,
                         Len(r.messages)),
             t)

\* variant: only a run that produced an answer is stored
StoreSession_answered(S, userId, r, t) ==
  IF r.state = "final" THEN set(S, userId, r.messages, t) ELSE S

\* index.ts:146  sessionManager.set(message.author.id, newMessages)
StoreSession(S, userId, r, t) == set(S, userId, r.messages, t)

\* variant: a store that leaves the typing timer running
Store_keepTimer(h) ==
  /\ pc[h] = "returned"
  /\ sessions' = StoreSession(sessions, hand[h].user, run[h], now)
  /\ lastSet' = [lastSet EXCEPT ![hand[h].user] =
                   [messages |-> run[h].messages, at |-> now,
                    by |-> run[h].state]]
  /\ pc' = [pc EXCEPT ![h] = "reply"]
  /\ UNCHANGED <<hand, run, now, ticks, lastOp, ret, probe>>

\* lines 140-149: processMediaRequest has returned; the conversation is
\* stored and the typing timer stopped
Store(h) ==
  /\ pc[h] = "returned"
  /\ sessions' = StoreSession(sessions, hand[h].user, run[h], now)
  /\ lastSet' = [lastSet EXCEPT ![hand[h].user] =
                   [messages |-> run[h].messages, at |-> now,
                    by |-> run[h].state]]
  /\ hand' = [hand EXCEPT ![h].typing = FALSE]
  /\ pc' = [pc EXCEPT ![h] = "reply"]
  /\ UNCHANGED <<run, now, ticks, lastOp, ret, probe>>

\* lines 151-209: the result is rendered and sent
Reply(h) ==
  /\ pc[h] = "reply"
  /\ hand' = [hand EXCEPT ![h] = Finished(@, "answer")]
  /\ run' = [run EXCEPT ![h] = NoRun]
  /\ pc' = [pc EXCEPT ![h] = "idle"]
  /\ UNCHANGED svars

\* sessions.ts:51: the periodic cleanup fires
Sweep ==
  /\ sessions' = cleanup(sessions, now)
  /\ UNCHANGED <<now, ticks, lastOp, ret, lastSet, probe>>
  /\ UNCHANGED hvars

\* time passes
Elapse(d) ==
  /\ ticks < MaxElapses
  /\ now' = now + d
  /\ ticks' = ticks + 1
  /\ UNCHANGED <<sessions, lastOp, ret, lastSet, probe>>
  /\ UNCHANGED hvars

-----------------------------------------------------------------------------
(* splitTextIntoChunks (the listener's chunking of a plain-text reply).    *)
(* A text is the list of its characters.                                   *)

\* the characters String.prototype.trim removes, among those that occur
Whitespace == {" ", "\n", "\t"}

\* str.slice(from)
SliceFrom(str, from) == SubSeq(str, from + 1, Len(str))

\* str.slice(0, to)
SliceTo(str, to) == SubSeq(str, 1, IF to < Len(str) THEN to ELSE Len(str))

\* the number of whitespace characters str starts with
LeadingWhitespace(str) ==
  CHOOSE k \in 0..Len(str) :
    /\ (k = Len(str) \/ str[k + 1] \notin Whitespace)
    /\ \A j \in 1..k : str[j] \in Whitespace

\* the number of whitespace characters str ends with
TrailingWhitespace(str) ==
  CHOOSE k \in 0..Len(str) :
    /\ (k = Len(str) \/ str[Len(str) - k] \notin Whitespace)
    /\ \A j \in 1..k : str[Len(str) - j + 1] \in Whitespace

\* str.trim()
Trim(str) ==
  LET lead == LeadingWhitespace(str) IN
  IF lead = Len(str) THEN <<>>
  ELSE SubSeq(str, lead + 1, Len(str) - TrailingWhitespace(str))

\* variant: a search that stops short of fromIndex
LastIndexOf_before(str, ch, fromIndex) ==
  LET hits == {i \in 0..(fromIndex - 1) : i < Len(str) /\ str[i + 1] = ch}
  IN IF hits = {} THEN -1 ELSE CHOOSE i \in hits : \A j \in hits : j <= i

\* str.lastIndexOf(ch, fromIndex): the last index, not above fromIndex,
\* at which ch occurs, or -1
LastIndexOf(str, ch, fromIndex) ==
  LET hits == {i \in 0..fromIndex : i < Len(str) /\ str[i + 1] = ch}
  IN IF hits = {} THEN -1 ELSE CHOOSE i \in hits : \A j \in hits : j <= i

\* lines 158-165: prefer a newline, then a space, then a hard cut
BreakPoint(remaining, maxLength) ==
  LET newline == LastIndexOf(remaining, "\n", maxLength)
      breakPoint1 ==
        IF newline = -1 \/ newline < MIN_CHUNK_LENGTH
          THEN LastIndexOf(remaining, " ", maxLength)
          ELSE newline
  IN IF breakPoint1 = -1 \/ breakPoint1 < MIN_CHUNK_LENGTH
       THEN maxLength
       ELSE breakPoint1

\* variant: the rest restarts one character after the break
Rest_skipOne(remaining, breakPoint) == SliceFrom(remaining, breakPoint + 1)

\* line 168: remaining.slice(breakPoint).trim()
Rest(remaining, breakPoint) == Trim(SliceFrom(remaining, breakPoint))

\* the locals of splitTextIntoChunks(text) on entry; breaks notes, for each
\* pass of the loop that cut, what remained before it and where it cut
EnterSplit(text) ==
  [fn |-> "splitTextIntoChunks", at |-> "entry", text |-> text,
   remaining |-> text, chunks |-> <<>>, breaks |-> <<>>]

\* lines 145-147: a text within the limit is returned as the only chunk
SplitEntry(p, maxLength) ==
  IF Len(p.text) <= maxLength
    THEN [p EXCEPT !.chunks = <<p.text>>, !.at = "done"]
    ELSE [p EXCEPT !.at = "loop"]

\* lines 152-169: one pass of the while loop
SplitPass(p, maxLength) ==
  IF Len(p.remaining) = 0 THEN [p EXCEPT !.at = "done"]
  ELSE IF Len(p.remaining) <= maxLength
    THEN [p EXCEPT !.chunks = Append(@, p.remaining), !.at = "done"]
    ELSE LET breakPoint == BreakPoint(p.remaining, maxLength) IN
         [p EXCEPT !.chunks = Append(@, SliceTo(p.remaining, breakPoint)),
                   !.remaining = Rest(p.remaining, breakPoint),
                   !.breaks = Append(@, [remaining |-> p.remaining,
                                         breakPoint |-> breakPoint])]

\* the function at work: its entry test or one pass of its loop
SplitStep ==
  /\ probe.fn = "splitTextIntoChunks"
  /\ probe.at # "done"
  /\ probe' = IF probe.at = "entry"
                THEN SplitEntry(probe, DISCORD_MAX_LENGTH)
                ELSE SplitPass(probe, DISCORD_MAX_LENGTH)
  /\ UNCHANGED <<sessions, now, ticks, lastOp, ret, lastSet>>
  /\ UNCHANGED hvars

\* a text of the given length: the marked characters at their indexes and
\* the letter x everywhere else
Filled(length, marks) ==
  [i \in 1..length |->
     IF \E m \in marks : m.index = i - 1
       THEN (CHOOSE m \in marks : m.index = i - 1).char
       ELSE "x"]

Mark(index, char) == [index |-> index, char |-> char]

\* where the texts of ChunkSpec have their newline or their space: nowhere,
\* just below and at the earliest acceptable break, between the two
\* limits, at the last index searched, just beyond it
BreakIndexes ==
  {-1, MIN_CHUNK_LENGTH - 1, MIN_CHUNK_LENGTH, 1500, DISCORD_MAX_LENGTH,
   DISCORD_MAX_LENGTH + 1}

TextLengths ==
  {5, DISCORD_MAX_LENGTH, DISCORD_MAX_LENGTH + 1, 3000, MaxTextLength}

\* texts with a run of whitespace at a break, a tab after a hard cut, a run
\* of spaces across the limit, a newline every 700 characters
SpecialTexts ==
  { Filled(3000, {Mark(1500, "\n"), Mark(1501, "\n"), Mark(1502, "\t")}),
    Filled(2500, {Mark(DISCORD_MAX_LENGTH, "\t")}),
    Filled(3000, {Mark(i, " ") : i \in 1990..2005}),
    Filled(MaxTextLength, {Mark(700 * k, "\n") : k \in 1..6}) }

\* the listener hands over trimmed section texts joined by a separator: a
\* text that neither starts nor ends with whitespace
ChunkTexts ==
  { text \in
      { Filled(length, {Mark(n, "\n")} \cup ({Mark(s, " ")} \ {Mark(n, " ")})) :
          length \in TextLengths, n \in BreakIndexes, s \in BreakIndexes }
        \cup SpecialTexts :
      text[1] \notin Whitespace /\ text[Len(text)] \notin Whitespace }

ChunkInit ==
  /\ sessions = [u \in Users |-> Undefined]
  /\ now = 0
  /\ ticks = 0
  /\ lastOp = [kind |-> "init", user |-> "alice", deleted |-> {}]
  /\ ret = Undefined
  /\ lastSet = [u \in Users |-> Undefined]
  /\ HandlersIdle
  /\ probe \in {EnterSplit(text) : text \in ChunkTexts}

ChunkNext == SplitStep

ChunkSpec == ChunkInit /\ [][ChunkNext]_vars

-----------------------------------------------------------------------------
(* parseResponseSections (the listener's split of a reply at its poster    *)
(* directives). A text and a URL are lists of characters.                  *)

\* posterUrl: null. A captured URL is never empty, so the empty list is free
Null == <<>>

\* what /\[POSTER:(https:\/\/[^\]]+)\]/ must read first
PosterOpening ==
  <<"[", "P", "O", "S", "T", "E", "R", ":", "h", "t", "t", "p", "s", ":", "/", "/">>

\* the index of the first "]" at or after index from, or -1
IndexOfClosing(text, from) ==
  IF \E j \in from..(Len(text) - 1) : text[j + 1] = "]"
    THEN CHOOSE j \in from..(Len(text) - 1) :
           /\ text[j + 1] = "]"
           /\ \A k \in from..(j - 1) : text[k + 1] # "]"
    ELSE -1

\* the regular expression matches at index i: the opening, one character or
\* more other than "]", then "]"
MatchesAt(text, i) ==
  /\ i + Len(PosterOpening) <= Len(text)
  /\ SubSeq(text, i + 1, i + Len(PosterOpening)) = PosterOpening
  /\ IndexOfClosing(text, i + Len(PosterOpening)) > i + Len(PosterOpening)

\* the match at index i: match.index, where it ends, and match[1], the URL
\* from https:// up to the closing bracket
MatchAt(text, i) ==
  LET closing == IndexOfClosing(text, i + Len(PosterOpening)) IN
  [index |-> i, end |-> closing + 1, url |-> SubSeq(text, i + 9, closing)]

\* [...text.matchAll(posterRegex)] from index from on: the matches left to
\* right, each search resuming where the previous match ended
RECURSIVE MatchAll(_, _)
MatchAll(text, from) ==
  LET starts == {i \in from..(Len(text) - 1) : MatchesAt(text, i)} IN
  IF starts = {} THEN <<>>
  ELSE LET first == CHOOSE i \in starts : \A j \in starts : i <= j
           match == MatchAt(text, first)
       IN <<match>> \o MatchAll(text, match.end)

\* text.replace(posterRegex, ""): the text without its matches
RECURSIVE WithoutMatches(_, _, _)
WithoutMatches(text, matches, from) ==
  IF matches = <<>> THEN SubSeq(text, from + 1, Len(text))
  ELSE SubSeq(text, from + 1, Head(matches).index)
         \o WithoutMatches(text, Tail(matches), Head(matches).end)

\* line 42: if (sectionText)
KeepSection(sectionText) == sectionText # <<>>

\* lines 36-47: the loop over the matches, from lastIndex on
RECURSIVE SectionsBefore(_, _, _)
SectionsBefore(text, matches, lastIndex) ==
  IF matches = <<>> THEN <<>>
  ELSE LET match == Head(matches)
           sectionText == Trim(SubSeq(text, lastIndex + 1, match.index))
       IN (IF KeepSection(sectionText)
             THEN <<[text |-> sectionText, posterUrl |-> match.url]>>
             ELSE <<>>)
            \o SectionsBefore(text, Tail(matches), match.end)

\* lines 49-52: what follows the last match, if it is more than whitespace
SectionAfter(text, matches) ==
  LET remaining == Trim(SliceFrom(text, matches[Len(matches)].end)) IN
  IF remaining # <<>> THEN <<[text |-> remaining, posterUrl |-> Null]>> ELSE <<>>

\* line 54: sections.filter((s) => s.text.length > 50 || s.posterUrl)
Surfaced(section) == Len(section.text) > 50 \/ section.posterUrl # Null

parseResponseSections(text) ==
  LET posterMatches == MatchAll(text, 0) IN
  IF Len(posterMatches) = 0 THEN <<[text |-> Trim(text), posterUrl |-> Null]>>
  ELSE IF Len(posterMatches) = 1
    THEN <<[text |-> Trim(WithoutMatches(text, posterMatches, 0)),
            posterUrl |-> posterMatches[1].url]>>
    ELSE SelectSeq(SectionsBefore(text, posterMatches, 0)
                     \o SectionAfter(text, posterMatches), Surfaced)

\* the pieces the texts of SectionSpec are put together from
HeaderText == <<"H", "e", "a", "d", "e", "r", " ", "t", "e", "x", "t", " ">>
MoreText == <<" ", "m", "o", "r", "e", " ", "t", "e", "x", "t", " ">>
LongText == [i \in 1..60 |-> IF i = 30 THEN " " ELSE "y"]
BlankText == <<" ", "\n">>
PosterA == PosterOpening \o <<"a", "]">>
PosterB == PosterOpening \o <<"b", "]">>
\* [POSTER:http://c] is no directive: the scheme is not https
NotAPoster ==
  <<"[", "P", "O", "S", "T", "E", "R", ":", "h", "t", "t", "p", ":", "/", "/", "c", "]">>

Pieces == {HeaderText, MoreText, LongText, BlankText, PosterA, PosterB, NotAPoster}

PieceLists == UNION {[1..n -> Pieces] : n \in 0..MaxPieces}

RECURSIVE Flat(_)
Flat(pieces) == IF pieces = <<>> THEN <<>> ELSE Head(pieces) \o Flat(Tail(pieces))

\* parseResponseSections(response) on entry; pieces notes what the text was
\* put together from
EnterParse(pieces) ==
  [fn |-> "parseResponseSections", at |-> "entry", pieces |-> pieces,
   text |-> Flat(pieces), sections |-> <<>>]

\* the function runs from entry to return
ParseStep ==
  /\ probe.fn = "parseResponseSections"
  /\ probe.at = "entry"
  /\ probe' = [probe EXCEPT !.sections = parseResponseSections(probe.text),
                            !.at = "done"]
  /\ UNCHANGED <<sessions, now, ticks, lastOp, ret, lastSet>>
  /\ UNCHANGED hvars

SectionInit ==
  /\ sessions = [u \in Users |-> Undefined]
  /\ now = 0
  /\ ticks = 0
  /\ lastOp = [kind |-> "init", user |-> "alice", deleted |-> {}]
  /\ ret = Undefined
  /\ lastSet = [u \in Users |-> Undefined]
  /\ HandlersIdle
  /\ probe \in {EnterParse(pieces) : pieces \in PieceLists}

SectionNext == ParseStep

SectionSpec == SectionInit /\ [][SectionNext]_vars

-----------------------------------------------------------------------------
(* The listener's rendering of the agent's final text (index.ts 151-207)   *)

\* "\n\n---\n\n"
SectionSeparator == <<"\n", "\n", "-", "-", "-", "\n", "\n">>

\* texts.join(sep) on character lists
RECURSIVE JoinTexts(_, _)
JoinTexts(texts, sep) ==
  IF texts = <<>> THEN <<>>
  ELSE IF Len(texts) = 1 THEN texts[1]
  ELSE texts[1] \o sep \o JoinTexts(Tail(texts), sep)

\* the chunking loop run from entry to return
RECURSIVE RunSplit(_)
RunSplit(p) ==
  IF p.at = "done" THEN p.chunks
  ELSE RunSplit(IF p.at = "entry" THEN SplitEntry(p, DISCORD_MAX_LENGTH)
                ELSE SplitPass(p, DISCORD_MAX_LENGTH))

splitTextIntoChunks(text) == RunSplit(EnterSplit(text))

\* lines 151-207: what the listener sends for a final text: one embed per
\* section (ten at most) if any section has a poster, else the section
\* texts joined and cut into chunks
Render(response) ==
  LET sections == parseResponseSections(response)
      hasPosters == \E i \in 1..Len(sections) : sections[i].posterUrl # Null
      shown == IF Len(sections) < 10 THEN Len(sections) ELSE 10
  IN IF hasPosters
       THEN [kind |-> "embeds",
             texts |-> [i \in 1..shown |-> SliceTo(sections[i].text, 4096)],
             thumbnails |-> [i \in 1..shown |-> sections[i].posterUrl]]
       ELSE [kind |-> "text",
             texts |-> splitTextIntoChunks(
                         JoinTexts([i \in 1..Len(sections) |-> sections[i].text],
                                   SectionSeparator)),
             thumbnails |-> <<>>]

\* more pieces for the final texts of RenderSpec: prose beyond the message
\* limit, the start of a directive without its URL, a URL and a closing
\* bracket without the start
VeryLongText == Filled(2100, {Mark(1500, " ")})
HalfOpen == <<"[", "P", "O", "S", "T", "E", "R", ":">>
UrlTail == <<"h", "t", "t", "p", "s", ":", "/", "/", "b", "]">>

RenderPieces ==
  {HeaderText, LongText, VeryLongText, PosterA, PosterB, HalfOpen, UrlTail}

\* the final texts the agent may return: whatever the model wrote
FinalTexts ==
  {Flat(pieces) : pieces \in UNION {[1..n -> RenderPieces] : n \in 0..MaxRenderPieces}}

EnterRender(response) ==
  [fn |-> "render", at |-> "entry", response |-> response,
   sent |-> [kind |-> "none", texts |-> <<>>, thumbnails |-> <<>>]]

\* the listener renders the final text and sends it
RenderStep ==
  /\ probe.fn = "render"
  /\ probe.at = "entry"
  /\ probe' = [probe EXCEPT !.sent = Render(probe.response), !.at = "done"]
  /\ UNCHANGED <<sessions, now, ticks, lastOp, ret, lastSet>>
  /\ UNCHANGED hvars

RenderInit ==
  /\ sessions = [u \in Users |-> Undefined]
  /\ now = 0
  /\ ticks = 0
  /\ lastOp = [kind |-> "init", user |-> "alice", deleted |-> {}]
  /\ ret = Undefined
  /\ lastSet = [u \in Users |-> Undefined]
  /\ HandlersIdle
  /\ probe \in {EnterRender(response) : response \in FinalTexts}

RenderNext == RenderStep

RenderSpec == RenderInit /\ [][RenderNext]_vars

-----------------------------------------------------------------------------
(* parseYearFromQuery (agent/index.ts 344-358). A query is the list of its *)
(* characters.                                                             *)

Digits == {"0", "1", "2", "3", "4", "5", "6", "7", "8", "9"}

\* (\d{4})\s*$ read from position i (1-based) of str: four digits and then
\* nothing but whitespace up to the end
YearThenEnd(str, i) ==
  /\ i + 3 <= Len(str)
  /\ \A j \in i..(i + 3) : str[j] \in Digits
  /\ \A j \in (i + 4)..Len(str) : str[j] \in Whitespace

\* the number of whitespace characters of str from position i on
WhitespaceRun(str, i) == LeadingWhitespace(SubSeq(str, i, Len(str)))

\* for each of the four patterns: whether it matches str starting exactly at
\* index i (0-based), and if so at which position (1-based) its group starts
\*   /\((\d{4})\)\s*$/
Parenthesized(str, i) ==
  IF /\ i + 6 <= Len(str)
     /\ str[i + 1] = "("
     /\ \A j \in (i + 2)..(i + 5) : str[j] \in Digits
     /\ str[i + 6] = ")"
     /\ \A j \in (i + 7)..Len(str) : str[j] \in Whitespace
    THEN i + 2 ELSE 0

\*   /\[(\d{4})\]\s*$/
Bracketed(str, i) ==
  IF /\ i + 6 <= Len(str)
     /\ str[i + 1] = "["
     /\ \A j \in (i + 2)..(i + 5) : str[j] \in Digits
     /\ str[i + 6] = "]"
     /\ \A j \in (i + 7)..Len(str) : str[j] \in Whitespace
    THEN i + 2 ELSE 0

\*   /\s*-\s*(\d{4})\s*$/
HyphenSuffixed(str, i) ==
  LET hyphen == i + 1 + WhitespaceRun(str, i + 1) IN
  IF hyphen <= Len(str) /\ str[hyphen] = "-"
    THEN LET group == hyphen + 1 + WhitespaceRun(str, hyphen + 1) IN
         IF YearThenEnd(str, group) THEN group ELSE 0
    ELSE 0

\*   /\s+(\d{4})\s*$/
BareSuffixed(str, i) ==
  LET blanks == WhitespaceRun(str, i + 1) IN
  IF blanks > 0 /\ YearThenEnd(str, i + 1 + blanks) THEN i + 1 + blanks ELSE 0

\* pattern k tried at index i
TryPattern(k, str, i) ==
  CASE k = 1 -> Parenthesized(str, i)
    [] k = 2 -> Bracketed(str, i)
    [] k = 3 -> HyphenSuffixed(str, i)
    [] k = 4 -> BareSuffixed(str, i)

\* variant: the bare suffix is tried before the hyphenated one
yearPatterns_bareFirst == <<1, 2, 4, 3>>

\* lines 345-350: the order in which the patterns are tried
yearPatterns == <<1, 2, 3, 4>>

\* query.match(pattern): the leftmost index at which the pattern matches
\* (-1 if none) and the position of its group
Match(k, str) ==
  LET starts == {i \in 0..Len(str) : TryPattern(k, str, i) > 0} IN
  IF starts = {} THEN [index |-> -1, group |-> 0]
  ELSE LET first == CHOOSE i \in starts : \A j \in starts : i <= j
       IN [index |-> first, group |-> TryPattern(k, str, first)]

\* lines 351-357: the loop over the patterns, from the n-th on
RECURSIVE TryFrom(_, _)
TryFrom(query, n) ==
  IF n > Len(yearPatterns) THEN [title |-> query]
  ELSE LET match == Match(yearPatterns[n], query) IN
       IF match.index >= 0
         THEN \* the match reaches the end: replace leaves what precedes it
              [title |-> Trim(SliceTo(query, match.index)),
               year |-> SubSeq(query, match.group, match.group + 3)]
         ELSE TryFrom(query, n + 1)

parseYearFromQuery(query) == TryFrom(query, 1)

\* what the queries of QuerySpec are put together from
TitleWord == <<"T", "i", "t", "l", "e">>
Year2010 == <<"2", "0", "1", "0">>
BracketedYear == <<"[", "2", "0", "1", "0", "]">>

QueryTokens ==
  {TitleWord, <<" ">>, <<"-">>, <<"(">>, <<")">>, BracketedYear, Year2010, <<"1">>}

Inception == <<"I", "n", "c", "e", "p", "t", "i", "o", "n">>

\* the queries the documentation gives
ExampleQueries ==
  { Inception \o <<" ", "(">> \o Year2010 \o <<")">>,
    Inception \o <<" ">> \o Year2010,
    TitleWord \o <<" ", "-", " ">> \o Year2010 }

Queries ==
  {Flat(tokens) : tokens \in UNION {[1..n -> QueryTokens] : n \in 0..MaxQueryTokens}}
    \cup ExampleQueries

EnterParseYear(query) ==
  [fn |-> "parseYearFromQuery", at |-> "entry", query |-> query,
   result |-> [title |-> <<>>]]

\* the function runs from entry to return
ParseYearStep ==
  /\ probe.fn = "parseYearFromQuery"
  /\ probe.at = "entry"
  /\ probe' = [probe EXCEPT !.result = parseYearFromQuery(probe.query),
                            !.at = "done"]
  /\ UNCHANGED <<sessions, now, ticks, lastOp, ret, lastSet>>
  /\ UNCHANGED hvars

QueryInit ==
  /\ sessions = [u \in Users |-> Undefined]
  /\ now = 0
  /\ ticks = 0
  /\ lastOp = [kind |-> "init", user |-> "alice", deleted |-> {}]
  /\ ret = Undefined
  /\ lastSet = [u \in Users |-> Undefined]
  /\ HandlersIdle
  /\ probe \in {EnterParseYear(query) : query \in Queries}

QueryNext == ParseYearStep

QuerySpec == QueryInit /\ [][QueryNext]_vars

-----------------------------------------------------------------------------
(* handleSearchMedia (agent/index.ts 360-402) on the catalog's answer      *)

TMDB_IMAGE_BASE == "https://image.tmdb.org/t/p/w342"

\* r.field, or the fallback if the field is absent or the empty string
FieldOr(r, field, fallback) ==
  IF field \in DOMAIN r /\ r[field] # <<>> THEN r[field] ELSE fallback

\* (r.releaseDate || r.firstAirDate || "").slice(0, 4)
ResultYear(r) ==
  SliceTo(FieldOr(r, "releaseDate", FieldOr(r, "firstAirDate", <<>>)), 4)

\* lines 368-370: the movie and series results, in the catalog's order
MediaResults(results) ==
  SelectSeq(results, LAMBDA r : r.mediaType = "movie" \/ r.mediaType = "tv")

\* variant: the results of the wanted year are listed after the others
Prioritize_othersFirst(mediaResults, targetYear) ==
  SelectSeq(mediaResults, LAMBDA r : ResultYear(r) # targetYear)
    \o SelectSeq(mediaResults, LAMBDA r : ResultYear(r) = targetYear)

\* lines 373-381: [...matchingYear, ...otherResults]
Prioritize(mediaResults, targetYear) ==
  SelectSeq(mediaResults, LAMBDA r : ResultYear(r) = targetYear)
    \o SelectSeq(mediaResults, LAMBDA r : ResultYear(r) # targetYear)

\* lines 386-393: the numbered line of result r at place i
ResultLine(r, i) ==
  [block |-> "line", number |-> i, id |-> r.id,
   title |-> FieldOr(r, "title", FieldOr(r, "name", <<"U", "n", "k", "n", "o", "w", "n">>)),
   year |-> ResultYear(r),
   type |-> IF r.mediaType = "movie" THEN "Movie" ELSE "TV",
   link |-> [base |-> "https://www.themoviedb.org/", kind |-> r.mediaType,
             id |-> r.id]]

\* lines 361-401 after the catalog answered: the text returned, as the list
\* of its blocks (the heading, the numbered lines, the poster directive)
SearchText(query, response) ==
  LET parsed == parseYearFromQuery(query)
      hasYear == "year" \in DOMAIN parsed
      media == MediaResults(response.results)
      ordered == IF hasYear THEN Prioritize(media, parsed.year) ELSE media
      mediaResults == SliceTo(ordered, 10)
      firstPoster ==
        IF Len(mediaResults) > 0 /\ FieldOr(mediaResults[1], "posterPath", <<>>) # <<>>
          THEN <<[block |-> "poster",
                  text |-> <<"\n[POSTER:", TMDB_IMAGE_BASE>>
                             \o mediaResults[1].posterPath \o <<"]">>]>>
          ELSE <<>>
  IN IF Len(response.results) = 0
       THEN <<[block |-> "none", title |-> parsed.title]>>
       ELSE <<[block |-> "heading", total |-> response.totalResults,
               yearNote |-> IF hasYear THEN parsed.year ELSE <<>>]>>
              \o [i \in 1..Len(mediaResults) |-> ResultLine(mediaResults[i], i)]
              \o firstPoster

\* the catalog's results: films and series of 2010 and of 2011, with and
\* without a poster, and a person
Date2010 == <<"2", "0", "1", "0", "-", "0", "7", "-", "1", "6">>
Date2011 == <<"2", "0", "1", "1", "-", "0", "3", "-", "0", "4">>
PosterPath == <<"/", "p", ".", "j", "p", "g">>

Film2010 ==
  [id |-> 0, mediaType |-> "movie", title |-> Inception,
   releaseDate |-> Date2010, posterPath |-> PosterPath]
Film2010NoPoster ==
  [id |-> 0, mediaType |-> "movie", title |-> Inception, releaseDate |-> Date2010]
Film2011 ==
  [id |-> 0, mediaType |-> "movie", title |-> TitleWord,
   releaseDate |-> Date2011, posterPath |-> PosterPath]
Series2010 ==
  [id |-> 0, mediaType |-> "tv", name |-> TitleWord,
   firstAirDate |-> Date2010, posterPath |-> PosterPath]
Series2011NoPoster ==
  [id |-> 0, mediaType |-> "tv", name |-> TitleWord, firstAirDate |-> Date2011,
   posterPath |-> <<>>]
Person == [id |-> 0, mediaType |-> "person", name |-> TitleWord]

ResultKinds ==
  {Film2010, Film2010NoPoster, Film2011, Series2010, Series2011NoPoster, Person}

\* the identifier of each result is its place in the catalog's answer
Numbered(results) == [i \in 1..Len(results) |-> [results[i] EXCEPT !.id = i]]

\* answers of ten to twelve results in which the results of 2010 are every
\* m-th one (m = 1..4), the last one only, or none
LongAnswers ==
  { [i \in 1..n |->
       IF (m <= 4 /\ i % m = 0) \/ (m = 5 /\ i = n)
         THEN (IF i % 2 = 0 THEN Series2010 ELSE Film2010NoPoster)
         ELSE (IF i = 3 THEN Person ELSE Film2011)] :
      n \in 10..12, m \in 1..6 }

CatalogAnswers ==
  { [results |-> Numbered(results), totalResults |-> Len(results)] :
      results \in UNION {[1..n -> ResultKinds] : n \in 0..MaxResults}
                    \cup LongAnswers }

\* search_media with a year in the query and without
SearchQueries == {Inception \o <<" ">> \o Year2010, Inception}

EnterSearch(query, response) ==
  [fn |-> "handleSearchMedia", at |-> "search", query |-> query,
   response |-> response, text |-> <<>>]

\* seerr.search(title) has resolved: the handler formats and returns
SearchStep ==
  /\ probe.fn = "handleSearchMedia"
  /\ probe.at = "search"
  /\ probe' = [probe EXCEPT !.text = SearchText(probe.query, probe.response),
                            !.at = "done"]
  /\ UNCHANGED <<sessions, now, ticks, lastOp, ret, lastSet>>
  /\ UNCHANGED hvars

SearchInit ==
  /\ sessions = [u \in Users |-> Undefined]
  /\ now = 0
  /\ ticks = 0
  /\ lastOp = [kind |-> "init", user |-> "alice", deleted |-> {}]
  /\ ret = Undefined
  /\ lastSet = [u \in Users |-> Undefined]
  /\ HandlersIdle
  /\ probe \in {EnterSearch(query, response) :
                   query \in SearchQueries, response \in CatalogAnswers}

SearchNext == SearchStep

SearchSpec == SearchInit /\ [][SearchNext]_vars

-----------------------------------------------------------------------------
(* handleListRequests and fetchMediaTitle (agent/index.ts 529-579)         *)

\* what the catalog knows about the titles requested
CatalogDetails(tmdbId) ==
  CASE tmdbId = 27205 -> [title |-> "Inception", year |-> "2010"]
    [] tmdbId = 42 -> [title |-> "Severance", year |-> "2022"]
    [] tmdbId = 7 -> [title |-> "Untitled", year |-> ""]

\* lines 529-541: fetchMediaTitle(req) once its detail lookup has settled
fetchMediaTitle(req, outcome) ==
  IF SeerrRequest(outcome).ok
    THEN [title |-> [text |-> CatalogDetails(req.media.tmdbId).title],
          year |-> CatalogDetails(req.media.tmdbId).year]
    ELSE [title |-> [text |-> "Unknown (TMDB ", tmdbId |-> req.media.tmdbId],
          year |-> ""]

\* variant: the infos are taken in the order in which the lookups settled
InfoAt_arrival(mediaInfos, arrived, index) == mediaInfos[arrived[index]]

\* mediaInfos[index]: Promise.all resolves to the values in the order of
\* the promises it was given
InfoAt(mediaInfos, arrived, index) == mediaInfos[index]

\* lines 553-574: the line of the request at place index
RequestLine(req, info) ==
  [id |-> req.id, title |-> info.title,
   yearStr |-> IF info.year # "" THEN <<" (", info.year, ")">> ELSE <<>>,
   type |-> IF req.type = "movie" THEN "Movie" ELSE "TV"]

\* line 544: filter || "pending"
FilterValue(filter) == IF filter = "" THEN "pending" ELSE filter

\* the requests the catalog may list
RequestKinds ==
  { [id |-> 0, type |-> "movie", media |-> [tmdbId |-> 27205]],
    [id |-> 0, type |-> "tv", media |-> [tmdbId |-> 42]],
    [id |-> 0, type |-> "movie", media |-> [tmdbId |-> 7]] }

RequestPages ==
  { [results |-> Numbered(results), pageInfo |-> [results |-> Len(results)]] :
      results \in UNION {[1..n -> RequestKinds] : n \in 0..MaxRequests} }

\* the filter argument: absent, or one of the catalog's filters
Filters == {"", "approved"}

\* handleListRequests(filter) awaiting seerr.listRequests(filterValue)
EnterList(filter) ==
  [fn |-> "handleListRequests", at |-> "listRequests", filter |-> filter,
   asked |-> FilterValue(filter), results |-> <<>>, total |-> 0,
   pending |-> {}, mediaInfos |-> <<>>, outcomes |-> <<>>, arrived |-> <<>>,
   returned |-> [kind |-> "none"]]

\* lines 545-552: the catalog answers the list; an empty list is reported,
\* otherwise one detail lookup per request is started
ListResolves(response) ==
  /\ probe.fn = "handleListRequests"
  /\ probe.at = "listRequests"
  /\ probe' =
       IF Len(response.results) = 0
         THEN [probe EXCEPT !.at = "done",
                            !.returned = [kind |-> "empty",
                                          filter |-> FilterValue(probe.filter)]]
         ELSE [probe EXCEPT !.at = "lookups",
                            !.results = response.results,
                            !.total = response.pageInfo.results,
                            !.pending = 1..Len(response.results),
                            !.mediaInfos = [i \in 1..Len(response.results) |-> Undefined],
                            !.outcomes = [i \in 1..Len(response.results) |-> Undefined]]
  /\ UNCHANGED <<sessions, now, ticks, lastOp, ret, lastSet>>
  /\ UNCHANGED hvars

\* line 545: seerr.listRequests rejects and the handler throws
ListRejects ==
  /\ probe.fn = "handleListRequests"
  /\ probe.at = "listRequests"
  /\ probe' = [probe EXCEPT !.at = "done",
                            !.returned =
                              [kind |-> "throw",
                               message |-> SeerrRequest(NetworkOutcome).message]]
  /\ UNCHANGED <<sessions, now, ticks, lastOp, ret, lastSet>>
  /\ UNCHANGED hvars

\* the detail lookup of the request at place i settles, before or after
\* those of the other requests
LookupSettles(i, outcome) ==
  /\ probe.fn = "handleListRequests"
  /\ probe.at = "lookups"
  /\ i \in probe.pending
  /\ probe' = [probe EXCEPT
                 !.pending = @ \ {i},
                 !.mediaInfos[i] = fetchMediaTitle(probe.results[i], outcome),
                 !.outcomes[i] = outcome,
                 !.arrived = Append(@, i)]
  /\ UNCHANGED <<sessions, now, ticks, lastOp, ret, lastSet>>
  /\ UNCHANGED hvars

\* lines 553-579: Promise.all has resolved; the lines are formatted
ListFormats ==
  /\ probe.fn = "handleListRequests"
  /\ probe.at = "lookups"
  /\ probe.pending = {}
  /\ probe' = [probe EXCEPT
                 !.at = "done",
                 !.returned =
                   [kind |-> "list",
                    filter |-> FilterValue(probe.filter),
                    shown |-> Len(probe.results),
                    total |-> probe.total,
                    lines |-> [index \in 1..Len(probe.results) |->
                                 RequestLine(probe.results[index],
                                             InfoAt(probe.mediaInfos,
                                                    probe.arrived, index))]]]
  /\ UNCHANGED <<sessions, now, ticks, lastOp, ret, lastSet>>
  /\ UNCHANGED hvars

ListInit ==
  /\ sessions = [u \in Users |-> Undefined]
  /\ now = 0
  /\ ticks = 0
  /\ lastOp = [kind |-> "init", user |-> "alice", deleted |-> {}]
  /\ ret = Undefined
  /\ lastSet = [u \in Users |-> Undefined]
  /\ HandlersIdle
  /\ probe \in {EnterList(filter) : filter \in Filters}

ListNext ==
  \/ \E response \in RequestPages : ListResolves(response)
  \/ ListRejects
  \/ \E i \in 1..MaxRequests, o \in {OkOutcome, StatusOutcome(404)} :
       LookupSettles(i, o)
  \/ ListFormats

ListSpec == ListInit /\ [][ListNext]_vars

-----------------------------------------------------------------------------
(* SessionSpec: the store driven by arbitrary calls *)

\* conversations handed to set by the calls of SessionSpec
SampleConversations ==
  { <<UserTurn("hi")>>,
    <<UserTurn("hi"), AssistantTurn(<<Text("hello")>>)>> }

\* the users whose entries a step from store S to store T deleted
Deleted(S, T) == {u \in Users : S[u] # Undefined /\ T[u] = Undefined}

\* the record of a store call: its kind, its userId argument, its deletions
Op(kind, user, S, T) == [kind |-> kind, user |-> user, deleted |-> Deleted(S, T)]

SessionInit ==
  /\ sessions = [u \in Users |-> Undefined]
  /\ now = 0
  /\ ticks = 0
  /\ lastOp = [kind |-> "init", user |-> "alice", deleted |-> {}]
  /\ ret = Undefined
  /\ lastSet = [u \in Users |-> Undefined]
  /\ probe = NoProbe
  /\ HandlersIdle

CallGet(u) ==
  /\ sessions' = get(sessions, u, now).sessions
  /\ ret' = get(sessions, u, now).ret
  /\ lastOp' = Op("get", u, sessions, sessions')
  /\ UNCHANGED <<now, ticks, lastSet, probe>>
  /\ UNCHANGED hvars

CallSet(u, m) ==
  /\ sessions' = set(sessions, u, m, now)
  /\ lastSet' = [lastSet EXCEPT ![u] =
                   [messages |-> m, at |-> now, by |-> "call"]]
  /\ lastOp' = Op("set", u, sessions, sessions')
  /\ UNCHANGED <<now, ticks, ret, probe>>
  /\ UNCHANGED hvars

CallClear(u) ==
  /\ sessions' = clear(sessions, u)
  /\ lastSet' = [lastSet EXCEPT ![u] = Undefined]
  /\ lastOp' = Op("clear", u, sessions, sessions')
  /\ UNCHANGED <<now, ticks, ret, probe>>
  /\ UNCHANGED hvars

CallCleanup ==
  /\ sessions' = cleanup(sessions, now)
  /\ lastOp' = Op("cleanup", lastOp.user, sessions, sessions')
  /\ UNCHANGED <<now, ticks, ret, lastSet, probe>>
  /\ UNCHANGED hvars

Tick(d) ==
  /\ ticks < MaxTicks
  /\ now' = now + d
  /\ ticks' = ticks + 1
  /\ lastOp' = Op("tick", lastOp.user, sessions, sessions)
  /\ UNCHANGED <<sessions, ret, lastSet, probe>>
  /\ UNCHANGED hvars

SessionNext ==
  \/ \E u \in Users : CallGet(u)
  \/ \E u \in Users, m \in SampleConversations : CallSet(u, m)
  \/ \E u \in Users : CallClear(u)
  \/ CallCleanup
  \/ \E d \in TickDeltas : Tick(d)

SessionSpec == SessionInit /\ [][SessionNext]_vars

-----------------------------------------------------------------------------
(* Spec: chat messages handled one after another *)

\* the clock advances of Spec: one whole TTL at a time, so that an entry is
\* still live after one advance and expired after a second one
ElapseDeltas == {SESSION_TTL_MS}

\* the users who write in Spec
Authors == {"alice"}

\* the one invocation in flight in Spec
Serial == {1}

Init == SessionInit

CreateResponds(h, response) ==
  Responds(h, response, Len(run[h].messages) + 3 <= MaxTurns)

Next ==
  \/ \E h \in Serial, u \in Authors, c \in Contents : Receive(h, u, c)
  \/ \E h \in Serial : TypingFails(h)
  \/ \E h \in Serial : Reset(h)
  \/ \E h \in Serial : Begin(h)
  \/ \E h \in Serial : CreateFails(h)
  \/ \E h \in Serial, r \in Responses : CreateResponds(h, r)
  \/ \E h \in Serial, o \in ClientOutcomes : ToolSettles(h, o)
  \/ \E h \in Serial : Store(h)
  \/ \E h \in Serial : Reply(h)
  \/ Sweep
  \/ \E d \in ElapseDeltas : Elapse(d)

Spec == Init /\ [][Next]_vars

-----------------------------------------------------------------------------
(* AlwaysToolSpec: one run against a completion endpoint that answers every *)
(* call with a tool-invocation request                                     *)

ToolRequested(h) == Responds(h, SearchCall, run[h].calls < MaxCalls)

AlwaysToolNext ==
  \/ \E h \in Serial, u \in Authors : Receive(h, u, "request Inception")
  \/ \E h \in Serial : Begin(h)
  \/ \E h \in Serial : ToolRequested(h)
  \/ \E h \in Serial, o \in {OkOutcome, NetworkOutcome} : ToolSettles(h, o)

AlwaysToolSpec == Init /\ [][AlwaysToolNext]_vars

-----------------------------------------------------------------------------
(* ToolSpec: one run whose completion endpoint asks for one tool, with any  *)
(* of the names and inputs below, against any of the catalog outcomes      *)

\* registered names, a name nobody registered, a registered name misspelt
ToolNames ==
  {"search_media", "get_media_details", "verify_imdb", "request_media",
   "approve_request", "decline_request", "get_ratings",
   "make_coffee", "searchMedia"}

ToolInputs ==
  { [query |-> "Inception"],
    [query |-> "42", typeof |-> [query |-> "number"]],
    [cups |-> 2],
    [tmdbId |-> 42, mediaType |-> "movie"],
    [tmdbId |-> 42, mediaType |-> "movie", seasons |-> <<1>>],
    [tmdbId |-> 42, mediaType |-> "tv"],
    [tmdbId |-> 42, mediaType |-> "tv", seasons |-> <<>>],
    [tmdbId |-> 42, mediaType |-> "tv", seasons |-> <<2, 1>>],
    [tmdbId |-> 42, mediaType |-> "film", seasons |-> <<1>>],
    [mediaType |-> "movie"],
    [requestId |-> 7],
    [requestId |-> 7, typeof |-> [requestId |-> "string"]],
    [imdbId |-> "tt1375666"] }

\* the catalog's answers: success, the statuses the tools single out, a
\* server error, a server error whose body quotes another status, no answer
ToolOutcomes ==
  {OkOutcome, StatusOutcome(403), StatusOutcome(404), StatusOutcome(409),
   StatusOutcome(500),
   StatusBodyOutcome(500, <<"upstream answered ", "404">>),
   NetworkOutcome}

\* a response that asks for one invocation
ToolCall(name, input) ==
  [stop_reason |-> "tool_use",
   content |-> <<ToolUse("toolu_1", name, input)>>]

\* a response that asks for a series without seasons and for a movie with
\* a seasons list
RequestPair ==
  [stop_reason |-> "tool_use",
   content |-> <<ToolUse("toolu_1", "request_media",
                         [tmdbId |-> 42, mediaType |-> "tv",
                          seasons |-> <<>>]),
                 ToolUse("toolu_2", "request_media",
                         [tmdbId |-> 27205, mediaType |-> "movie",
                          seasons |-> <<1>>])>>]

OneRoundResponses ==
  {ToolCall(name, input) : name \in ToolNames, input \in ToolInputs}
    \cup {RequestPair}

ToolNext ==
  \/ \E h \in Serial : Receive(h, "alice", "request Inception")
  \/ \E h \in Serial : Begin(h)
  \/ \E h \in Serial, r \in OneRoundResponses :
       Responds(h, r, run[h].rounds = 0)
  \/ \E h \in Serial, o \in ToolOutcomes : ToolSettles(h, o)

ToolSpec == Init /\ [][ToolNext]_vars

-----------------------------------------------------------------------------
(* ScenarioSpec: the message "request Inception" answered by a model that   *)
(* searches, looks the details up, submits the request and then repeats    *)
(* the last tool result                                                    *)

InceptionId == 27205

\* what the completion endpoint answers to the call that follows the given
\* number of tool rounds
ScriptedResponse(r) ==
  CASE r.rounds = 0 ->
         [stop_reason |-> "tool_use",
          content |-> <<ToolUse("toolu_1", "search_media",
                                [query |-> "Inception"])>>]
    [] r.rounds = 1 ->
         [stop_reason |-> "tool_use",
          content |-> <<ToolUse("toolu_2", "get_media_details",
                                [tmdbId |-> InceptionId, mediaType |-> "movie"])>>]
    [] r.rounds = 2 ->
         [stop_reason |-> "tool_use",
          content |-> <<ToolUse("toolu_3", "request_media",
                                [tmdbId |-> InceptionId, mediaType |-> "movie"])>>]
    [] OTHER ->
         [stop_reason |-> "end_turn",
          content |-> <<Text(r.toolResults[Len(r.toolResults)].content)>>]

ScriptedResponds(h) == Responds(h, ScriptedResponse(run[h]), TRUE)

ScenarioNext ==
  \/ \E h \in Serial, u \in Users : Receive(h, u, "request Inception")
  \/ \E h \in Serial : Begin(h)
  \/ \E h \in Serial : ScriptedResponds(h)
  \/ \E h \in Serial, o \in ClientOutcomes : ToolSettles(h, o)
  \/ \E h \in Serial : Store(h)
  \/ \E h \in Serial : Reply(h)

ScenarioSpec == Init /\ [][ScenarioNext]_vars

-----------------------------------------------------------------------------
(* ListenerSpec: one invocation of the listener at a time, on messages     *)
(* with and without a reset command                                        *)

\* contents that hold a reset command in capitals, inside a sentence or
\* inside a longer word, and contents that hold none
ListenerContents ==
  {"request Inception", "for get",
   "Start Over", "please FORGET that", "New Conversation", "preset list"}

ListenerResponses == {SearchCall, FinalAnswer}

ListenerNext ==
  \/ \E h \in Serial, c \in ListenerContents : Receive(h, "alice", c)
  \/ \E h \in Serial : TypingFails(h)
  \/ \E h \in Serial : Reset(h)
  \/ \E h \in Serial : Begin(h)
  \/ \E h \in Serial : CreateFails(h)
  \/ \E h \in Serial, r \in ListenerResponses : CreateResponds(h, r)
  \/ \E h \in Serial, o \in {OkOutcome, NetworkOutcome} : ToolSettles(h, o)
  \/ \E h \in Serial : Store(h)
  \/ \E h \in Serial : Reply(h)
  \/ \E d \in ElapseDeltas : Elapse(d)

ListenerSpec == Init /\ [][ListenerNext]_vars

-----------------------------------------------------------------------------
(* ConcurrentSpec: two invocations of the listener in flight at once.  The  *)
(* first handles messages of alice; the second handles messages of alice   *)
(* or of bob, and bob's reset commands.                                    *)

ConcurrentResponses == {SearchCall, FinalAnswer}

\* a message is delivered while its author's stored conversation leaves
\* room for the user turn and an answer
ConcurrentReceive(h, u, content) ==
  /\ IF IsResetCommand(content) \/ sessions[u] = Undefined
       THEN TRUE
       ELSE Len(sessions[u].messages) + 2 <= MaxRaceTurns
  /\ Receive(h, u, content)

ConcurrentResponds(h, response) ==
  Responds(h, response, Len(run[h].messages) + 3 <= MaxRaceTurns)

\* the clock passes the TTL
ConcurrentElapse ==
  /\ ticks < MaxRaceElapses
  /\ Elapse(SESSION_TTL_MS + 1)

ConcurrentNext ==
  \/ ConcurrentReceive(1, "alice", "request Inception")
  \/ \E u \in Users : ConcurrentReceive(2, u, "request Severance")
  \/ ConcurrentReceive(2, "bob", "Start Over")
  \/ \E h \in Handlers : Reset(h)
  \/ \E h \in Handlers : Begin(h)
  \/ \E h \in Handlers, r \in ConcurrentResponses : ConcurrentResponds(h, r)
  \/ \E h \in Handlers : ToolSettles(h, OkOutcome)
  \/ \E h \in Handlers : Store(h)
  \/ \E h \in Handlers : Reply(h)
  \/ ConcurrentElapse

ConcurrentSpec == Init /\ [][ConcurrentNext]_vars

-----------------------------------------------------------------------------
(* ResetRaceSpec: two invocations of the listener in flight at once, both  *)
(* for alice: the first handles her requests, the second her reset         *)
(* commands and the requests that follow them                              *)

ResetRaceNext ==
  \/ ConcurrentReceive(1, "alice", "request Inception")
  \/ \E c \in {"Start Over", "request Severance"} :
       ConcurrentReceive(2, "alice", c)
  \/ \E h \in Handlers : Reset(h)
  \/ \E h \in Handlers : Begin(h)
  \/ \E h \in Handlers, r \in ConcurrentResponses : ConcurrentResponds(h, r)
  \/ \E h \in Handlers : ToolSettles(h, OkOutcome)
  \/ \E h \in Handlers : Store(h)
  \/ \E h \in Handlers : Reply(h)

ResetRaceSpec == Init /\ [][ResetRaceNext]_vars

-----------------------------------------------------------------------------
(* Session store properties (SessionSpec) *)

\* the age of u's entry exceeds the TTL, stated over the store itself
Stale(S, u, t) == S[u] # Undefined /\ t - S[u].lastActivity > 30 * 60 * 1000

\* what the call history says get(u) must return at time now
ExpectedGet(u) ==
  IF lastSet[u] # Undefined /\ now - lastSet[u].at <= 30 * 60 * 1000
    THEN Defined(lastSet[u].messages)
    ELSE Undefined

\* C8: after any sequence of set, get, clear and cleanup calls and clock
\* advances, get(u) returns the conversation of the most recent set(u, .)
\* when no clear(u) followed it and at most the TTL has elapsed since, and
\* returns absent in every other case.
C8_GetRoundTrip ==
  lastOp.kind = "get" => ret = ExpectedGet(lastOp.user)

\* a get that returns the stored conversation at an age of exactly the TTL
C8_Witness ==
  /\ lastOp.kind = "get"
  /\ lastSet[lastOp.user] # Undefined
  /\ now - lastSet[lastOp.user].at = SESSION_TTL_MS
  /\ ret = Defined(lastSet[lastOp.user].messages)

\* C9: get(u) deletes u's entry when it is older than the TTL and in every
\* other case leaves the whole store unchanged (no conversation and no
\* lastActivity changes, no other user's entry is touched).
C9_GetFrame ==
  [][lastOp'.kind = "get" =>
       LET u == lastOp'.user IN
       IF Stale(sessions, u, now)
         THEN sessions' = [sessions EXCEPT ![u] = Undefined]
         ELSE sessions' = sessions]_vars

\* a get that deleted its own expired entry while the other user's entry,
\* itself still live, stayed in the store
C9_Witness ==
  /\ lastOp.kind = "get"
  /\ lastOp.deleted = {lastOp.user}
  /\ \E v \in Users \ {lastOp.user} : sessions[v] # Undefined

\* C10: cleanup() removes exactly the entries whose age exceeds the TTL at
\* the time of the call, leaves every other entry unchanged, and no expired
\* entry remains when it returns.
C10_CleanupFrame ==
  [][lastOp'.kind = "cleanup" =>
       /\ sessions' = [u \in Users |->
                         IF Stale(sessions, u, now) THEN Undefined
                                                    ELSE sessions[u]]
       /\ \A u \in Users : ~Stale(sessions', u, now')]_vars

\* a cleanup that deleted both users' entries at once
C10_Witness ==
  /\ lastOp.kind = "cleanup"
  /\ lastOp.deleted = Users

-----------------------------------------------------------------------------
(* Agent loop properties (Spec, AlwaysToolSpec) *)

\* the conversation a run was started from (empty when there was none)
Prior(r) == IF r.existing = Undefined THEN <<>> ELSE r.existing.value

IsPrefix(a, b) == Len(a) <= Len(b) /\ SubSeq(b, 1, Len(a)) = a

\* the text blocks of a turn's content joined by newlines
JoinedText(content) ==
  LET texts == SelectSeq(content, LAMBDA b : b.type = "text")
  IN Join([i \in 1..Len(texts) |-> texts[i].text], "\n")

\* the invocation identifiers of the tool_use blocks of a content, in order
InvocationIds(content) ==
  LET blocks == SelectSeq(content, LAMBDA b : b.type = "tool_use")
  IN [i \in 1..Len(blocks) |-> blocks[i].id]

\* C1: the conversation of a run consists of the prior conversation H,
\* unchanged and in order, then the user turn, then only turns appended
\* during the run; no earlier turn is removed, replaced or reordered, in
\* the final-answer outcome and in the aborted outcome alike.
C1_OnlyAppends ==
  /\ [](\A h \in Handlers :
          run[h].state # "none" =>
            IsPrefix(Prior(run[h]) \o <<UserTurn(run[h].userMessage)>>,
                     run[h].messages))
  /\ [][\A h \in Handlers :
          (run[h].state # "none" /\ run'[h].state # "none") =>
            IsPrefix(run[h].messages, run'[h].messages)]_vars

\* a run that returned an answer, started from a stored conversation that
\* holds a tool round trip
C1_Witness ==
  \E h \in Handlers :
    /\ pc[h] = "returned"
    /\ run[h].state = "final"
    /\ Len(Prior(run[h])) >= 3
    /\ Len(run[h].messages) = Len(Prior(run[h])) + 2

\* C2: against a completion endpoint that answers every call with a
\* tool-invocation request, the run ends after exactly 10 round trips with
\* the fixed fallback text: no 11th completion call is issued.
C2_IterationCap ==
  \A h \in Handlers :
    /\ run[h].calls <= 10
    /\ run[h].rounds = 10 =>
         (run[h].state = "aborted" /\ run[h].result = Apology)

\* C3: a tool invocation whose client call fails yields a text, which the
\* loop records as that invocation's tool result, and the run goes on to
\* the next completion call; a run is aborted by nothing but a failed
\* completion call.
C3_ToolFailureIsText ==
  \A h \in Handlers :
    LET r == run[h] IN
    /\ r.state = "aborted" => r.createFailed
    /\ r.state = "running" =>
         /\ Len(r.toolResults) = Len(r.outcomes)
         /\ \A i \in 1..Len(r.outcomes) :
              /\ r.toolResults[i].type = "tool_result"
              /\ r.toolResults[i].tool_use_id = r.dispatched[i]
              /\ r.toolResults[i].content \in STRING
         /\ (r.idx = 0 /\ r.rounds > 0) =>
              /\ pc[h] = "create"
              /\ r.calls = r.rounds + 1
              /\ r.messages[Len(r.messages)] = ToolResultTurn(r.toolResults)

\* a run waiting for its next completion call right after a round trip in
\* which the catalog could not be reached
C3_Witness ==
  \E h \in Handlers :
    /\ pc[h] = "create"
    /\ run[h].state = "running"
    /\ run[h].rounds >= 1
    /\ \E i \in 1..Len(run[h].outcomes) :
         /\ run[h].outcomes[i] = NetworkOutcome
         /\ run[h].toolResults[i].content = "Error: fetch failed"

\* C4: when a completion call fails, the run ends at once with the fixed
\* apology as its result, and from then on makes no completion call and
\* no tool call.
C4_CreateFailureEndsRun ==
  /\ [](\A h \in Handlers :
          run[h].createFailed =>
            /\ run[h].state = "aborted"
            /\ run[h].result = Apology
            /\ pc[h] \in {"returned", "reply"})
  /\ [][\A h \in Handlers :
          /\ (~run[h].createFailed /\ run'[h].createFailed) =>
                /\ run'[h].calls = run[h].calls
                /\ run'[h].dispatched = run[h].dispatched
                /\ run'[h].messages = run[h].messages
          /\ (run[h].createFailed /\ run'[h].state # "none") =>
                run'[h] = run[h]]_vars

\* a run aborted by the failure of a completion call that followed a tool
\* round trip
C4_Witness ==
  \E h \in Handlers :
    /\ pc[h] = "returned"
    /\ run[h].createFailed
    /\ run[h].rounds >= 1

\* C5: the conversation returned by an aborted run holds the prior turns,
\* the new user turn and every assistant/tool-result pair appended before
\* the failure; the listener stores it as the author's session, and the
\* author's next message (within the TTL) starts from it.
C5_AbortedRunIsStored ==
  [][\A h \in Handlers :
       LET u == hand[h].user
           r == run[h]
           n == Len(Prior(r))
       IN
       /\ (pc[h] = "returned" /\ pc'[h] = "reply" /\ r.state = "aborted") =>
            /\ sessions'[u] # Undefined
            /\ sessions'[u].messages = r.messages
            /\ IsPrefix(Prior(r) \o <<UserTurn(r.userMessage)>>, r.messages)
            /\ Len(r.messages) = n + 1 + 2 * r.rounds
            /\ \A k \in 1..r.rounds :
                 /\ r.messages[n + 2 * k].role = "assistant"
                 /\ r.messages[n + 2 * k + 1].role = "user"
                 /\ InvocationIds(r.messages[n + 2 * k].content) =
                      [i \in 1..Len(r.messages[n + 2 * k + 1].content) |->
                         r.messages[n + 2 * k + 1].content[i].tool_use_id]
       /\ (/\ pc[h] = "sendTyping" /\ pc'[h] = "create"
           /\ lastSet[u] # Undefined
           /\ lastSet[u].by = "aborted"
           /\ now - lastSet[u].at <= 30 * 60 * 1000) =>
            run'[h].messages =
              lastSet[u].messages \o <<UserTurn(hand[h].content)>>
    ]_vars

\* a run started from the conversation that an aborted run left behind,
\* tool round trip included
C5_Witness ==
  \E h \in Handlers :
    LET u == hand[h].user IN
    /\ pc[h] = "create"
    /\ run[h].calls = 1
    /\ lastSet[u] # Undefined
    /\ lastSet[u].by = "aborted"
    /\ Len(lastSet[u].messages) >= 3
    /\ run[h].existing = Defined(lastSet[u].messages)

\* C6: the k invocations of one response are dispatched once each, one
\* after the other in emission order, the next only after the previous
\* has returned; the tool-result turn holds exactly k results in that
\* order, the i-th carrying the identifier of the i-th invocation.
C6_SequentialInOrder ==
  \A h \in Handlers :
    LET r == run[h] IN
    (r.state = "running" /\ r.response # Undefined) =>
      LET ids == InvocationIds(r.response.content)
          resultIds == [i \in 1..Len(r.toolResults) |->
                          r.toolResults[i].tool_use_id]
      IN
      /\ pc[h] = "tool" =>
           /\ r.dispatched = SubSeq(ids, 1, r.idx)
           /\ resultIds = SubSeq(ids, 1, r.idx - 1)
      /\ (pc[h] = "create" /\ r.rounds > 0) =>
           /\ r.dispatched = ids
           /\ resultIds = ids
           /\ r.messages[Len(r.messages) - 1] =
                AssistantTurn(r.response.content)
           /\ r.messages[Len(r.messages)] = ToolResultTurn(r.toolResults)

\* a round trip of two invocations has been recorded
C6_Witness ==
  \E h \in Handlers :
    /\ pc[h] = "create"
    /\ run[h].state = "running"
    /\ run[h].rounds >= 1
    /\ Len(run[h].toolResults) = 2

\* C7 as stated: a run that ends is in one of two terminal states, 'final
\* answer produced' (the conversation ends with the assistant's final
\* turn and the result is that turn's text) or 'loop aborted' (the result
\* is the fixed apology).
C7_AsStated ==
  \A h \in Handlers :
    pc[h] = "returned" =>
      LET r == run[h] IN
      \/ /\ r.state = "final"
         /\ r.messages[Len(r.messages)] = AssistantTurn(r.response.content)
         /\ r.result = JoinedText(r.messages[Len(r.messages)].content)
      \/ /\ r.state = "aborted"
         /\ r.result = Apology

\* C7: a run that ends is in one of two terminal states, 'final answer
\* produced' (the conversation ends with the assistant's final turn and
\* the result is that turn's text blocks joined by newlines, or the text
\* "No response" when that is empty) or 'loop aborted' (the result is the
\* fixed apology).
C7_TwoTerminalStates ==
  \A h \in Handlers :
    pc[h] = "returned" =>
      LET r == run[h] IN
      \/ /\ r.state = "final"
         /\ r.messages[Len(r.messages)] = AssistantTurn(r.response.content)
         /\ LET text == JoinedText(r.messages[Len(r.messages)].content)
            IN r.result = IF text = "" THEN "No response" ELSE text
      \/ /\ r.state = "aborted"
         /\ r.result = Apology

\* a run that ended on an answer without text
C7_Witness ==
  \E h \in Handlers :
    /\ pc[h] = "returned"
    /\ run[h].state = "final"
    /\ run[h].result = "No response"

-----------------------------------------------------------------------------
(* Concurrency properties (ConcurrentSpec) *)

\* the step is one of invocation h: its position or its locals change
StepOf(h) == <<pc[h], hand[h], run[h]>>' # <<pc[h], hand[h], run[h]>>

\* how many turns of a conversation equal turn
Count(messages, turn) ==
  Cardinality({i \in 1..Len(messages) : messages[i] = turn})

\* C11: a step of the handling of one author's message (session fetch,
\* agent run, session store, reset) neither reads nor changes the session
\* entry of any other author: the other entries stay as they are, the
\* fetch yields the author's own last stored conversation or nothing, and
\* the store leaves exactly the run's conversation in the author's entry.
C11_OtherUsersUntouched ==
  [][\A h \in Handlers :
       StepOf(h) =>
         LET u == hand'[h].user IN
         /\ \A v \in Users \ {u} :
              sessions'[v] = sessions[v] /\ lastSet'[v] = lastSet[v]
         /\ (pc[h] = "sendTyping" /\ pc'[h] = "create") =>
              /\ run'[h].existing \in
                   {Undefined} \cup
                   (IF lastSet[u] = Undefined THEN {}
                    ELSE {Defined(lastSet[u].messages)})
              /\ run'[h].messages =
                   Prior(run'[h]) \o <<UserTurn(hand[h].content)>>
         /\ (pc[h] = "returned" /\ pc'[h] = "reply") =>
              sessions'[u] = [messages |-> run[h].messages,
                              lastActivity |-> now]
    ]_vars

\* alice's run has just been stored while bob, who has a stored session of
\* his own, has a run in flight
C11_Witness ==
  /\ hand[1].user = "alice" /\ pc[1] = "reply"
  /\ hand[2].user = "bob" /\ pc[2] \in {"create", "tool", "returned"}
  /\ run[2].existing # Undefined
  /\ sessions["alice"] # Undefined
  /\ sessions["alice"].messages = run[1].messages
  /\ sessions["bob"] # Undefined

\* C12: two runs of the same author that both fetched the session before
\* either stored start from the same stored conversation; when the second
\* of them stores, the stored session is exactly the conversation that run
\* returned, and the turns appended by the other run are not in it.
C12_LastSetWins ==
  /\ [](\A h \in Handlers : \A g \in Handlers \ {h} :
          (/\ run[h].state # "none" /\ run[g].state # "none"
           /\ hand[h].user = hand[g].user
           /\ run[h].seen = run[g].seen
           /\ run[h].existing # Undefined /\ run[g].existing # Undefined) =>
            run[h].existing = run[g].existing)
  /\ [][\A h \in Handlers : \A g \in Handlers \ {h} :
          (/\ pc[h] = "returned" /\ pc'[h] = "reply"
           /\ pc[g] = "reply"
           /\ hand[h].user = hand[g].user
           /\ run[h].seen = run[g].seen
           /\ run[h].existing = run[g].existing
           /\ run[h].userMessage # run[g].userMessage) =>
            LET u == hand[h].user
                stored == sessions'[u].messages
                other == UserTurn(run[g].userMessage)
            IN /\ stored = run[h].messages
               /\ Count(stored, other) = Count(Prior(run[h]), other)
               /\ ~IsPrefix(run[g].messages, stored)]_vars

\* both runs of alice started from her stored conversation and both have
\* stored; the session is the conversation of the first invocation, which
\* stored last, and differs from the other's
C12_Witness ==
  /\ pc[1] = "reply" /\ pc[2] = "reply"
  /\ hand[1].user = "alice" /\ hand[2].user = "alice"
  /\ run[1].seen = run[2].seen
  /\ run[1].existing # Undefined
  /\ run[1].existing = run[2].existing
  /\ sessions["alice"] # Undefined
  /\ sessions["alice"].messages = run[1].messages
  /\ sessions["alice"].messages # run[2].messages
  /\ lastSet["alice"].messages = run[1].messages

-----------------------------------------------------------------------------
(* Tool properties (ToolSpec) *)

\* the invocations of run r that have settled: the i-th tool_use block of
\* the response, the outcome its client call met, the number of client
\* calls made and the text recorded as its result
Settled(r) ==
  IF r.response = Undefined THEN {}
  ELSE {[toolUse |-> ToolUseBlocks(r.response.content)[i],
         outcome |-> r.outcomes[i],
         requests |-> r.requests[i],
         text |-> r.toolResults[i].content,
         id |-> r.toolResults[i].tool_use_id] :
          i \in 1..(IF r.state = "running" THEN Len(r.toolResults) ELSE 0)}

\* C13: an invocation whose name is not a registered tool name yields the
\* text 'Unknown tool: <name>', makes no call to either client and does
\* not end the run; the loop records the text as that invocation's result.
C13_UnknownToolIsText ==
  \A h \in Handlers :
    /\ \A c \in Settled(run[h]) :
         c.toolUse.name \notin
           {"search_media", "get_media_details", "verify_imdb",
            "request_media", "list_requests", "approve_request",
            "decline_request", "discover_trending", "discover_upcoming",
            "discover_movies", "discover_tv", "get_similar", "get_ratings"}
         => /\ c.text = "Unknown tool: " \o c.toolUse.name
            /\ c.requests = 0
            /\ c.id = c.toolUse.id
    /\ run[h].state \notin {"aborted", "threw"}

\* the run goes on after the invocation of a tool nobody registered
C13_Witness ==
  \E h \in Handlers :
    /\ pc[h] = "create" /\ run[h].rounds = 1
    /\ run[h].messages[Len(run[h].messages)] =
         ToolResultTurn(<<ToolResult("toolu_1", "Unknown tool: make_coffee")>>)

\* the seasons argument of an invocation is absent or an empty list
NoSeasons(input) ==
  IF "seasons" \in DOMAIN input THEN input.seasons = <<>> ELSE TRUE

\* C14: request_media for a series with an absent or empty seasons list
\* yields the usage-error text and sends nothing to the catalog; for a
\* movie the seasons argument is ignored: exactly one request is sent and,
\* when the catalog accepts it, the result is the movie confirmation.
C14_SeasonsRequiredForSeries ==
  \A h \in Handlers : \A c \in Settled(run[h]) :
    LET input == c.toolUse.input IN
    (c.toolUse.name = "request_media" /\ "mediaType" \in DOMAIN input) =>
      /\ (input.mediaType = "tv" /\ NoSeasons(input)) =>
           /\ c.text = "Error: For TV shows, you must specify which seasons "
                        \o "to request. Use get_media_details first to see "
                        \o "available seasons."
           /\ c.requests = 0
      /\ input.mediaType = "movie" =>
           /\ c.requests = 1
           /\ c.outcome = [kind |-> "ok"] =>
                c.text = "Movie request submitted successfully!\nRequest ID: "
                         \o "42\nStatus: Pending"

\* a series request with an empty seasons list was answered with the usage
\* error, and a movie request that carried a seasons list was submitted
C14_Witness ==
  \E h \in Handlers : \E c, d \in Settled(run[h]) :
    /\ c.toolUse.name = "request_media"
    /\ c.toolUse.input =
         [tmdbId |-> 42, mediaType |-> "tv", seasons |-> <<>>]
    /\ c.requests = 0
    /\ d.toolUse.name = "request_media"
    /\ d.toolUse.input =
         [tmdbId |-> 27205, mediaType |-> "movie", seasons |-> <<1>>]
    /\ d.requests = 1 /\ d.outcome = OkOutcome

\* C15: an invocation of a registered tool whose input does not validate
\* against the tool's schema (a required parameter missing, a value of the
\* wrong type, a value outside the enumerated values) is answered with a
\* text without any call to the catalog or cross-reference client, and
\* the run is not ended by it.
C15_InvalidInputIsRejected ==
  \A h \in Handlers :
    /\ \A c \in Settled(run[h]) :
         (/\ c.toolUse.name \in RegisteredTools
          /\ ~Validates(c.toolUse.name, c.toolUse.input)) =>
           c.requests = 0
    /\ run[h].state \notin {"aborted", "threw"}

\* the error message of a catalog failure with the given status and body
StatusMessage(outcome) ==
  Join(<<"Seerr API error (", NumStr(outcome.status), "): ">>
         \o outcome.body, "")

\* C16: for approve_request and decline_request a catalog failure with
\* status 403 yields the permission-denied text, one with status 404 the
\* request-not-found text naming the request id, one with any other status
\* the generic error text; the tool returns a text in every case and the
\* run is not ended by the failure.
C16_StatusToPhrasing ==
  \A h \in Handlers :
    /\ \A c \in Settled(run[h]) :
         (/\ c.toolUse.name \in {"approve_request", "decline_request"}
          /\ c.outcome.kind = "status") =>
           LET action == IF c.toolUse.name = "approve_request"
                           THEN "approving" ELSE "declining"
               id == IF "requestId" \in DOMAIN c.toolUse.input
                       THEN NumStr(c.toolUse.input.requestId)
                       ELSE "undefined"
           IN c.text =
                CASE c.outcome.status = 403 ->
                       "Permission denied. The API key doesn't have "
                       \o "MANAGE_REQUESTS permission."
                  [] c.outcome.status = 404 ->
                       "Request #" \o id \o " not found. Use list_requests "
                       \o "to see available requests."
                  [] OTHER ->
                       "Error " \o action \o " request: "
                       \o StatusMessage(c.outcome)
    /\ run[h].state \notin {"aborted", "threw"}

\* C17: when the catalog rejects a request_media submission with status
\* 409, the tool result is the duplicate-request text.
C17_DuplicateRequestText ==
  \A h \in Handlers : \A c \in Settled(run[h]) :
    (/\ c.toolUse.name = "request_media"
     /\ c.requests > 0
     /\ c.outcome.kind = "status"
     /\ c.outcome.status = 409) =>
      c.text = "This media has already been requested or is already "
               \o "available."

-----------------------------------------------------------------------------
(* C18: splitTextIntoChunks terminates, keeps chunks within the limits and *)
(* breaks at the preferred place                                           *)

Splitting == probe.fn = "splitTextIntoChunks"

\* the indexes from 1000 to 2000 at which str has the character
Acceptable(str, char) ==
  {i \in MIN_CHUNK_LENGTH..DISCORD_MAX_LENGTH : i < Len(str) /\ str[i + 1] = char}

Highest(indexes) == CHOOSE i \in indexes : \A j \in indexes : j <= i

\* the break the rule prescribes for a text longer than the limit
PrescribedBreak(str) ==
  IF Acceptable(str, "\n") # {} THEN Highest(Acceptable(str, "\n"))
  ELSE IF Acceptable(str, " ") # {} THEN Highest(Acceptable(str, " "))
  ELSE DISCORD_MAX_LENGTH

C18_ChunkLengths ==
  Splitting =>
    /\ \A i \in 1..Len(probe.chunks) : Len(probe.chunks[i]) <= DISCORD_MAX_LENGTH
    /\ \A i \in 1..(Len(probe.chunks) - 1) :
         Len(probe.chunks[i]) >= MIN_CHUNK_LENGTH

C18_Breaks ==
  Splitting =>
    \A i \in 1..Len(probe.breaks) :
      /\ probe.breaks[i].breakPoint = PrescribedBreak(probe.breaks[i].remaining)
      /\ probe.chunks[i] =
           SubSeq(probe.breaks[i].remaining, 1, probe.breaks[i].breakPoint)

\* C18: for every input text splitTextIntoChunks returns: every pass of its
\* loop either returns or leaves at least 1000 characters less to split, so
\* the passes are at most one more than the text's length divided by 1000.
\* Every chunk has at most 2000 characters and every chunk but the last at
\* least 1000; each break is at the last newline at an index from 1000 to
\* 2000, else at the last space in that range, else a hard cut at 2000.
C18_SplitTerminatesWithinLimits ==
  /\ [](C18_ChunkLengths /\ C18_Breaks)
  /\ [][(Splitting /\ probe.at = "loop")
          => \/ probe'.at = "done"
             \/ /\ probe'.at = "loop"
                /\ Len(probe'.remaining) + MIN_CHUNK_LENGTH <= Len(probe.remaining)
                /\ Len(probe'.chunks) = Len(probe.chunks) + 1]_vars
  /\ [](Splitting => Len(probe.chunks) <= Len(probe.text) \div MIN_CHUNK_LENGTH + 1)

\* C18 witness: a text split into three chunks, the first cut at a space at
\* index 1500 because its only newline comes too early, the second a hard cut
C18_Witness ==
  /\ Splitting
  /\ probe.at = "done"
  /\ Len(probe.chunks) = 3
  /\ probe.breaks[1].remaining[1000] = "\n"
  /\ probe.breaks[1].remaining[1501] = " "
  /\ probe.breaks[1].breakPoint = 1500
  /\ probe.breaks[2].breakPoint = DISCORD_MAX_LENGTH
  /\ Len(probe.chunks[3]) < MIN_CHUNK_LENGTH

-----------------------------------------------------------------------------
(* C19: the chunks are the text with whitespace taken out at the breaks    *)

\* chunks i, i+1, ... are found in text one after the other from position
\* pos on, separated by nothing but whitespace, and end where text ends
RECURSIVE ConsecutivePieces(_, _, _, _)
ConsecutivePieces(text, chunks, i, pos) ==
  LET end == pos + Len(chunks[i]) IN
  /\ Len(chunks[i]) > 0
  /\ end <= Len(text)
  /\ SubSeq(text, pos + 1, end) = chunks[i]
  /\ IF i = Len(chunks) THEN end = Len(text)
     ELSE \E next \in end..Len(text) :
            /\ \A j \in (end + 1)..next : text[j] \in Whitespace
            /\ ConsecutivePieces(text, chunks, i + 1, next)

\* C19: the chunks returned for a text are consecutive pieces of it in the
\* original order; what lies between one chunk and the next is whitespace
\* only, and the chunks with those separators put back are the whole text.
C19_ChunksRebuildText ==
  (Splitting /\ probe.at = "done") =>
    ConsecutivePieces(probe.text, probe.chunks, 1, 0)

\* C19 witness: a text cut at the second of two newlines, the first kept at
\* the end of the first chunk, the second and the tab after it in no chunk
C19_Witness ==
  /\ Splitting
  /\ probe.at = "done"
  /\ Len(probe.chunks) = 2
  /\ probe.chunks[1][Len(probe.chunks[1])] = "\n"
  /\ Len(probe.chunks[1]) + Len(probe.chunks[2]) + 2 = Len(probe.text)

-----------------------------------------------------------------------------
(* C20: one section per poster directive                                   *)

Parsed == probe.fn = "parseResponseSections" /\ probe.at = "done"

IsDirective(piece) == piece \in {PosterA, PosterB}

\* the positions, in the list of pieces, of the directives
DirectivePositions(pieces) == {i \in 1..Len(pieces) : IsDirective(pieces[i])}

\* the URL a directive piece names: what stands between "[POSTER:" and "]"
UrlOf(piece) == SubSeq(piece, 9, Len(piece) - 1)

\* the pieces before position i back to the previous directive or the start
PrecedingText(pieces, i) ==
  LET earlier == {j \in DirectivePositions(pieces) : j < i}
      start == IF earlier = {} THEN 1
               ELSE (CHOOSE j \in earlier : \A k \in earlier : k <= j) + 1
  IN Flat(SubSeq(pieces, start, i - 1))

\* the directive positions in ascending order
RECURSIVE Ascending(_)
Ascending(positions) ==
  IF positions = {} THEN <<>>
  ELSE LET least == CHOOSE i \in positions : \A j \in positions : i <= j
       IN <<least>> \o Ascending(positions \ {least})

WithPoster(section) == section.posterUrl # Null

\* C20: for a text with two or more poster directives the sections that
\* carry a poster are, in the original order, one per directive: the trimmed
\* text between the previous directive (or the start) and this one, paired
\* with this directive's URL; for a text with no directive, or with one, the
\* result is one section holding the whole trimmed text (less the
\* directive), paired with the directive's URL if there is one.
C20_SectionPerDirective ==
  Parsed =>
    LET at == Ascending(DirectivePositions(probe.pieces)) IN
    IF Len(at) >= 2
      THEN SelectSeq(probe.sections, WithPoster) =
             [k \in 1..Len(at) |->
                [text |-> Trim(PrecedingText(probe.pieces, at[k])),
                 posterUrl |-> UrlOf(probe.pieces[at[k]])]]
      ELSE /\ Len(probe.sections) = 1
           /\ probe.sections[1].text =
                Trim(Flat(SelectSeq(probe.pieces, LAMBDA p : ~IsDirective(p))))
           /\ probe.sections[1].posterUrl =
                IF Len(at) = 1 THEN UrlOf(probe.pieces[at[1]]) ELSE Null

-----------------------------------------------------------------------------
(* C21: no poster directive is shown to the user as text                   *)

\* text reads, somewhere, [POSTER:https:// then one character or more other
\* than "]" and then "]"
ShowsDirective(text) ==
  \E i \in 1..Len(text) :
    /\ i + 17 <= Len(text)
    /\ SubSeq(text, i, i + 15) =
         <<"[", "P", "O", "S", "T", "E", "R", ":", "h", "t", "t", "p", "s", ":", "/", "/">>
    /\ text[i + 16] # "]"
    /\ \E j \in (i + 17)..Len(text) : text[j] = "]"

\* C21: whatever the final text, no embed description and no plain-text
\* chunk the listener sends contains a poster directive as literal text.
C21_NoDirectiveShown ==
  (probe.fn = "render" /\ probe.at = "done") =>
    \A k \in 1..Len(probe.sent.texts) : ~ShowsDirective(probe.sent.texts[k])

-----------------------------------------------------------------------------
(* C22: parseYearFromQuery strips the first year suffix that matches       *)

ParsedYear == probe.fn = "parseYearFromQuery" /\ probe.at = "done"

Blank(str) == \A j \in 1..Len(str) : str[j] \in Whitespace

FourDigits(str) == Len(str) = 4 /\ \A j \in 1..4 : str[j] \in Digits

\* str is a year suffix of the k-th shape with the given year: (year),
\* [year], a hyphen and the year, or blank space and the year, with blank
\* space allowed around the hyphen and after the year
HasShape(k, str, year) ==
  LET open == IF k = 1 THEN <<"(">> ELSE IF k = 2 THEN <<"[">>
              ELSE IF k = 3 THEN <<"-">> ELSE <<>>
      close == IF k = 1 THEN <<")">> ELSE IF k = 2 THEN <<"]">> ELSE <<>>
      fixed == Len(open) + 4 + Len(close)
  IN \E a \in 0..(Len(str) - fixed) :
       /\ (k \in {1, 2} => a = 0)
       /\ (k = 4 => a > 0)
       /\ Blank(SubSeq(str, 1, a))
       /\ SubSeq(str, a + 1, a + Len(open)) = open
       /\ \E b \in 0..(Len(str) - fixed - a) :
            LET digits == a + Len(open) + b IN
            /\ (k # 3 => b = 0)
            /\ Blank(SubSeq(str, a + Len(open) + 1, digits))
            /\ SubSeq(str, digits + 1, digits + 4) = year
            /\ SubSeq(str, digits + 5, digits + 4 + Len(close)) = close
            /\ Blank(SubSeq(str, digits + 5 + Len(close), Len(str)))

\* the lengths of the suffixes of query that have the k-th shape
SuffixLengths(k, query) ==
  {n \in 1..Len(query) :
     \E d \in 1..(n - 3) :
       /\ FourDigits(SubSeq(query, Len(query) - n + d, Len(query) - n + d + 3))
       /\ HasShape(k, SubSeq(query, Len(query) - n + 1, Len(query)),
                   SubSeq(query, Len(query) - n + d, Len(query) - n + d + 3))}

\* the first shape, in the order parenthesized, bracketed, hyphen-suffixed,
\* bare-suffixed, that a suffix of query has; 0 if none
FirstShape(query) ==
  IF \E k \in 1..4 : SuffixLengths(k, query) # {}
    THEN CHOOSE k \in 1..4 :
           /\ SuffixLengths(k, query) # {}
           /\ \A j \in 1..(k - 1) : SuffixLengths(j, query) = {}
    ELSE 0

\* C22: the result is the query unchanged and without a year if no suffix
\* of it has one of the four shapes; otherwise, for the first shape that
\* some suffix has, the title is the query without its longest suffix of
\* that shape, trimmed, and the year is that suffix's four digits.  The
\* documented queries give title Inception and year 2010, and Title (not
\* "Title -") for "Title - 2010".
C22_FirstMatchingYearPattern ==
  ParsedYear =>
    LET query == probe.query
        result == probe.result
        k == FirstShape(query)
    IN /\ IF k = 0
            THEN result = [title |-> query]
            ELSE LET lengths == SuffixLengths(k, query)
                     n == CHOOSE m \in lengths : \A j \in lengths : j <= m
                     suffix == SubSeq(query, Len(query) - n + 1, Len(query))
                 IN /\ DOMAIN result = {"title", "year"}
                    /\ result.title = Trim(SubSeq(query, 1, Len(query) - n))
                    /\ FourDigits(result.year)
                    /\ HasShape(k, suffix, result.year)
       /\ (query \in ExampleQueries =>
             /\ result.year = Year2010
             /\ result.title = IF query[1] = "I" THEN Inception ELSE TitleWord)

\* C22 witness: "Title - 2010", which ends in a bare-suffixed year as well as
\* in a hyphen-suffixed one, parsed to the title Title and the year 2010
C22_Witness ==
  /\ ParsedYear
  /\ probe.query = TitleWord \o <<" ", "-", " ">> \o Year2010
  /\ SuffixLengths(4, probe.query) # {}
  /\ probe.result = [title |-> TitleWord, year |-> Year2010]

-----------------------------------------------------------------------------
(* C23: search_media lists the results of the wanted year first            *)

Searched == probe.fn = "handleSearchMedia" /\ probe.at = "done"

\* the catalog's result with the given identifier
ResultOf(id) == probe.response.results[id]

IsMedia(r) == r.mediaType \in {"movie", "tv"}

\* the year the result was released or first aired
YearOf(r) ==
  IF r.mediaType = "movie" THEN SubSeq(r.releaseDate, 1, 4)
  ELSE SubSeq(r.firstAirDate, 1, 4)

\* identifier a is listed before identifier b: a result of the wanted year
\* before any other, and the catalog's order within each group
Before(a, b, year) ==
  LET wantedA == YearOf(ResultOf(a)) = year
      wantedB == YearOf(ResultOf(b)) = year
  IN IF wantedA = wantedB THEN a < b ELSE wantedA

Lines(text) == SelectSeq(text, LAMBDA b : b.block = "line")

\* C23: with a year in the query, the numbered lines are the movie and
\* series results ordered with those of that year first and the catalog's
\* order kept within each group, cut to the first ten; every result left out
\* comes after every result listed.  With or without a year there is at most
\* one poster directive, after the lines, and it is the poster of the first
\* listed result.
C23_WantedYearFirstTopTen ==
  (Searched /\ Len(probe.response.results) > 0) =>
    LET lines == Lines(probe.text)
        listed == {lines[i].id : i \in 1..Len(lines)}
        media == {id \in 1..Len(probe.response.results) : IsMedia(ResultOf(id))}
        posters == SelectSeq(probe.text, LAMBDA b : b.block = "poster")
    IN /\ listed \subseteq media
       /\ Len(lines) = (IF Cardinality(media) < 10 THEN Cardinality(media) ELSE 10)
       /\ Cardinality(listed) = Len(lines)
       /\ \A i \in 1..Len(lines) : lines[i].number = i
       /\ probe.query # Inception =>
            /\ \A i, j \in 1..Len(lines) :
                 i < j => Before(lines[i].id, lines[j].id, Year2010)
            /\ \A a \in listed, b \in media \ listed : Before(a, b, Year2010)
       /\ Len(posters) <= 1
       /\ Len(posters) = 1 =>
            /\ probe.text[Len(probe.text)].block = "poster"
            /\ Len(lines) > 0
            /\ "posterPath" \in DOMAIN ResultOf(lines[1].id)
            /\ posters[1].text =
                 <<"\n[POSTER:", TMDB_IMAGE_BASE>>
                   \o ResultOf(lines[1].id).posterPath \o <<"]">>
       /\ Len(posters) = 0 =>
            \/ Len(lines) = 0
            \/ "posterPath" \notin DOMAIN ResultOf(lines[1].id)
            \/ ResultOf(lines[1].id).posterPath = <<>>

\* C23 witness: twelve results, the last one the only one of 2010: it is
\* listed first with its poster, and the catalog's tenth result is left out
C23_Witness ==
  /\ Searched
  /\ probe.query # Inception
  /\ Len(probe.response.results) = 12
  /\ Len(Lines(probe.text)) = 10
  /\ Lines(probe.text)[1].id = 12
  /\ \A i \in 1..10 : Lines(probe.text)[i].id # 11
  /\ probe.text[Len(probe.text)].block = "poster"

-----------------------------------------------------------------------------
(* C24: list_requests pairs each request with its own title                *)

Listed ==
  /\ probe.fn = "handleListRequests"
  /\ probe.at = "done"
  /\ probe.returned.kind = "list"

\* the title the catalog has for the request at place i
TitleOf(i) == CatalogDetails(probe.results[i].media.tmdbId).title

\* C24: the catalog is asked for the given filter, or for pending requests
\* if none is given; once every lookup has settled, in whatever order, the
\* list is returned and its line i carries the identifier of request i and
\* the title its own lookup resolved, or the Unknown fallback naming its own
\* title identifier if that lookup failed.
C24_EachLineItsOwnTitle ==
  /\ probe.fn = "handleListRequests" =>
       probe.asked = (IF probe.filter = "" THEN "pending" ELSE probe.filter)
  /\ (probe.fn = "handleListRequests" /\ probe.at = "done"
        /\ Len(probe.results) > 0) => probe.returned.kind = "list"
  /\ Listed =>
       /\ Len(probe.returned.lines) = Len(probe.results)
       /\ \A i \in 1..Len(probe.results) :
            LET line == probe.returned.lines[i] IN
            /\ line.id = probe.results[i].id
            /\ IF probe.outcomes[i] = OkOutcome
                 THEN line.title = [text |-> TitleOf(i)]
                 ELSE /\ line.title.text = "Unknown (TMDB "
                      /\ line.title.tmdbId = probe.results[i].media.tmdbId

\* C24 witness: three requests for different titles whose lookups settled
\* last to first, the middle one failing, listed in the catalog's order
C24_Witness ==
  /\ Listed
  /\ probe.arrived = <<3, 2, 1>>
  /\ probe.outcomes[2] # OkOutcome
  /\ probe.returned.lines[1].title = [text |-> "Inception"]
  /\ probe.returned.lines[2].title.text = "Unknown (TMDB "
  /\ probe.returned.lines[3].title = [text |-> "Untitled"]

-----------------------------------------------------------------------------
(* C25: search, details, request, answer                                   *)

\* the run of handler h has returned its final answer
Answered(h) == pc[h] = "returned" /\ run[h].state = "final"

\* the invocations of the run that reached the catalog with a movie request
Submissions(r) ==
  {i \in 1..Len(r.log) :
     /\ r.log[i].name = "request_media"
     /\ r.log[i].input.mediaType = "movie"
     /\ r.log[i].requests > 0}

\* C25: when the run on "request Inception" has answered, it has dispatched
\* search_media, get_media_details and request_media, once each and in that
\* order; the catalog was sent exactly one movie request, in one call; and
\* if the catalog accepted every call, the final text is the confirmation
\* "Movie request submitted successfully!" with the request identifier.
C25_SearchDetailsRequest ==
  \A h \in Serial :
    Answered(h) =>
      LET r == run[h] IN
      /\ [i \in 1..Len(r.log) |-> r.log[i].name] =
           <<"search_media", "get_media_details", "request_media">>
      /\ r.log[1].input = [query |-> "Inception"]
      /\ r.log[2].input = [tmdbId |-> InceptionId, mediaType |-> "movie"]
      /\ r.log[3].input = [tmdbId |-> InceptionId, mediaType |-> "movie"]
      /\ Submissions(r) = {3}
      /\ r.log[3].requests = 1
      /\ (\A i \in 1..3 : r.log[i].outcome = OkOutcome) =>
           r.result = "Movie request submitted successfully!\nRequest ID: 42"
                        \o "\nStatus: Pending"

\* C25 witness: the run has answered after three accepted catalog calls and
\* its final text is the confirmation
C25_Witness ==
  /\ Answered(1)
  /\ run[1].userMessage = "request Inception"
  /\ Len(run[1].log) = 3
  /\ \A i \in 1..3 : run[1].log[i].outcome = OkOutcome
  /\ run[1].rounds = 3
  /\ run[1].result = "Movie request submitted successfully!\nRequest ID: 42"
                       \o "\nStatus: Pending"

-----------------------------------------------------------------------------
(* C26: the recorded tool-invocation turn and the inputs as emitted        *)

\* the inputs of the tool-invocation blocks of the turn recorded last by the
\* run r, which has just completed a round trip
RecordedInputs(r) ==
  LET blocks == ToolUseBlocks(r.messages[Len(r.messages) - 1].content)
  IN [i \in 1..Len(blocks) |-> blocks[i].input]

\* the inputs of the last k invocations of the run r as the completion
\* endpoint emitted them
EmittedInputs(r, k) ==
  [i \in 1..k |-> r.log[Len(r.log) - k + i].input]

\* C26: when a round trip has been recorded, the tool-invocation turn holds
\* the input of each invocation exactly as the completion endpoint emitted
\* it, the seasons of a request_media invocation in the order given.
C26_RecordedAsEmitted ==
  \A h \in Serial :
    (pc[h] = "create" /\ run[h].state = "running" /\ run[h].rounds > 0) =>
      RecordedInputs(run[h]) =
        EmittedInputs(run[h], Len(RecordedInputs(run[h])))

-----------------------------------------------------------------------------
(* C27: a reset command, or fetch, run, store and render                   *)

\* the contents of ListenerContents in which a reset phrase occurs,
\* whatever its case and whatever surrounds it
WithResetPhrase ==
  {"Start Over", "please FORGET that", "New Conversation", "preset list"}

\* the step handles the reset command of h's message: the user's session
\* is cleared and the fixed text replied, and no run starts
ResetHandled(h) ==
  /\ pc'[h] = "idle"
  /\ hand'[h].reply = "reset"
  /\ ~hand'[h].typing
  /\ sessions' = [sessions EXCEPT ![hand[h].user] = Undefined]
  /\ lastSet'[hand[h].user] = Undefined
  /\ run'[h] = NoRun

\* the step fetches the user's session and starts the run on it
Fetched(h) ==
  LET u == hand[h].user
      live == sessions[u] # Undefined
                /\ now - sessions[u].lastActivity <= SESSION_TTL_MS
  IN /\ pc'[h] = "create"
     /\ run'[h].state = "running"
     /\ run'[h].userMessage = hand[h].content
     /\ run'[h].messages =
          (IF live THEN sessions[u].messages ELSE <<>>)
            \o <<UserTurn(hand[h].content)>>
     /\ lastSet' = lastSet

\* the steps of h after the listener took the message up, each in its place
InOrder(h) ==
  /\ (pc[h] = "sendTyping" /\ pc'[h] # "sendTyping") =>
       IF hand[h].content \in WithResetPhrase
         THEN ResetHandled(h) ELSE Fetched(h)
  /\ (pc[h] \in {"create", "tool"}) =>
       /\ pc'[h] \in {"create", "tool", "returned"}
       /\ lastSet' = lastSet
       /\ hand' = hand
  /\ (pc[h] = "returned" /\ pc'[h] # "returned") =>
       /\ pc'[h] = "reply"
       /\ run[h].state \in {"final", "aborted"}
       /\ sessions'[hand[h].user] =
            [messages |-> run[h].messages, lastActivity |-> now]
       /\ lastSet'[hand[h].user] # Undefined
       /\ hand'[h].reply = "none"
  /\ (pc[h] = "reply" /\ pc'[h] # "reply") =>
       /\ pc'[h] = "idle"
       /\ hand'[h].reply = "answer"
       /\ lastSet' = lastSet
  /\ (pc[h] = "idle") => lastSet' = lastSet

\* the step is the rejection of channel.sendTyping(): the error text is
\* replied and nothing else is done
TypingRejected(h) ==
  /\ pc[h] = "sendTyping"
  /\ pc'[h] = "idle"
  /\ hand'[h].reply = "error"
  /\ UNCHANGED <<sessions, lastSet, run>>

-----------------------------------------------------------------------------
(* C28: every tool-invocation turn has its tool-result turn                *)

\* turn i of the conversation is an assistant turn with tool-invocation
\* blocks
Invokes(messages, i) ==
  /\ messages[i].role = "assistant"
  /\ Len(ToolUseBlocks(messages[i].content)) > 0

\* turn i + 1 holds one result for each invocation of turn i, and no other
Answers(messages, i) ==
  /\ i < Len(messages)
  /\ messages[i + 1].role = "user"
  /\ LET uses == ToolUseBlocks(messages[i].content)
         results == messages[i + 1].content
     IN /\ Len(results) = Len(uses)
        /\ \A j \in 1..Len(uses) :
             /\ results[j].type = "tool_result"
             /\ results[j].tool_use_id = uses[j].id

Paired(messages) ==
  \A i \in 1..Len(messages) : Invokes(messages, i) => Answers(messages, i)

\* C28: in the conversation a run returns, and in every stored session,
\* each assistant turn with tool-invocation blocks is immediately followed
\* by a tool-result turn with exactly one result per invocation.
C28_InvocationsAnswered ==
  /\ \A h \in Serial : pc[h] = "returned" => Paired(run[h].messages)
  /\ \A u \in Users :
       sessions[u] # Undefined => Paired(sessions[u].messages)

-----------------------------------------------------------------------------
(* C29: a reset and the runs in flight                                     *)

\* the invocation h has stored the conversation of its run and has not yet
\* replied
HasStored(h) == pc[h] = "reply"

\* C29: a run that began before a reset command of its user was handled
\* does not store a session for that user after the reset, so that the
\* user's next message starts from an empty conversation.
C29_NoStoreAcrossReset ==
  \A h \in Handlers :
    HasStored(h) => ~run[h].overtaken

-----------------------------------------------------------------------------
(* C30: the typing timer                                                   *)

\* the invocation h is inside processMediaRequest or about to store
Processing(h) == pc[h] \in {"create", "tool", "returned"}

\* C30: the typing timer of an invocation fires while its run is being
\* processed and is stopped before the reply is rendered; it is not firing
\* once the invocation has ended, be it after a reset command, after an
\* answered run or after an aborted one.
C30_TimerStopped ==
  \A h \in Serial :
    /\ Processing(h) => hand[h].typing
    /\ pc[h] \in {"reply", "idle"} => ~hand[h].typing

\* C30 witness: an aborted run has been answered and its invocation has
\* ended, on a conversation stored by an earlier answered run
C30_Witness ==
  /\ pc[1] = "idle"
  /\ hand[1].reply = "answer"
  /\ ~hand[1].typing
  /\ lastSet["alice"] # Undefined
  /\ lastSet["alice"].by = "aborted"
  /\ Len(lastSet["alice"].messages) >= 3

====
